---- MODULE Spec2Model ----
(***************************************************************************)
(* The CRDT document persistence engine of yjs-realtime:                   *)
(* src/persistence.ts (metadata registry, debounced flush, compaction,     *)
(* close, load), src/persistence/projections/ProjectionManager.ts (sidecar *)
(* projections) and the bindState / writeState hooks of src/server.ts.     *)
(*                                                                         *)
(* A Yjs update is an identifier; a document state, a merged update blob,  *)
(* a snapshot and a log row are sets of identifiers (Y.mergeUpdates and    *)
(* Y.applyUpdate are set union, Y.encodeStateAsUpdate is the state).       *)
(* Every asynchronous function is a task with a program counter; a task    *)
(* that is not waiting for storage I/O or for a mutex runs before any      *)
(* timer, I/O completion or client event (JavaScript micro-tasks).         *)
(***************************************************************************)
EXTENDS Integers, Sequences, FiniteSets, TLC

\* ---- bounds of the model ----
MaxUpdates == 2
MaxBinds == 2
MaxTasks == 2
MaxFails == 1
MaxTimers == 2
TickMs == 25
\* reverts that produce an update in a run of the model, and the version ids asked for
MaxReverts == 1
MaxVersionId == 2
\* how often the auto-version interval elapses in a run of the model
MaxIntervals == 1

\* ---- program constants ----
DEBOUNCE_DELAY_MS == 50
AUTO_VERSION_INTERVAL_MS == 60000

Docs == {"d1", "d2"}
Updates == 1..MaxUpdates
\* the updates of client edits and of reverts
AllUpdates == 1..(MaxUpdates + MaxReverts)
DocInsts == 1..MaxBinds
MetaIds == 1..MaxBinds
TaskIds == 1..MaxTasks
TimerIds == 1..MaxTimers

YJS_ORIGIN_PERSISTENCE == "persistence"

VARIABLES
    phase,      \* per document id: "unbound", "binding", "bound", "closing"
    live,       \* per document id: the Y.Doc instance in the server's docs map (0: none)
    ndocs,      \* Y.Doc instances created so far
    ydoc,       \* per Y.Doc instance: its state, persistence marker, listener
    metaMap,    \* documentMetadataMap: document id -> metadata instance (0: none)
    nmeta,      \* metadata instances created so far
    metas,      \* per metadata instance: the DocumentMetadata fields and its Mutex
    ftimer,     \* the armed setTimeout timers of scheduleFlush
    task,       \* the running asynchronous functions
    snapshot,   \* documentSnapshot table: per document id
    log,        \* documentUpdate table: per document id, rows in ascending id order
    versions,   \* documentVersion table: its rows and its autoincrement sequence
    sidecar,    \* documents table: per document id, the three cia columns
    projState,  \* projectionState table: per document id, lastError of "cia"
    dirty,      \* ProjectionManager.dirtyFlags: per document id, is "cia" dirty
    wiring,     \* which listener the deployment attaches on bind
    revertRoute, \* which of the two POST handlers of the revert route is built
    bindStateLocks, \* server.ts bindStateLocks: per document id, the task whose
                \* lock promise the map holds (0: no entry)
    served,     \* the document ids clients open
    content,    \* per update: the values the edit writes into the cia map
    proc,       \* the server process: "up", "draining", "stopping", "exited"
    nextUpd,    \* next fresh update identifier
    fails,      \* storage failures injected so far
    hist        \* history: what the properties speak about, never read by the program

vars == <<phase, live, ndocs, ydoc, metaMap, nmeta, metas, ftimer, task,
          snapshot, log, versions, sidecar, projState, dirty, wiring,
          revertRoute, bindStateLocks, served, content, proc, nextUpd, fails, hist>>

\* what is fixed when the deployment starts (content: of the client edits; a revert
\* adds the content of the update it produces)
cfgVars == <<wiring, revertRoute, served, content>>

dbVars == <<snapshot, log, versions, sidecar, projState>>

\* ---- small helpers ----
Min(a, b) == IF a < b THEN a ELSE b

RECURSIVE MergeSeq(_)
\* Y.mergeUpdates of a sequence of blobs
MergeSeq(s) == IF s = <<>> THEN {} ELSE Head(s) \cup MergeSeq(Tail(s))

mergeUpdates(s) == MergeSeq(s)

encodeStateAsUpdate(g) == ydoc[g].state

\* what loading the stored snapshot and replaying the stored log yields
Persisted(d) == snapshot[d].bytes \cup MergeSeq(log[d])

\* the values a field of the cia map can hold ("Other": any other string,
\* "undefined": the key is absent)
CiaValues == {"Low", "Medium", "High", "Critical", "Other", "undefined"}

CiaMaps == [confidentiality : CiaValues, integrity : CiaValues, availability : CiaValues]

NoCia == [confidentiality |-> "undefined", integrity |-> "undefined",
          availability |-> "undefined"]

\* ---- the documentVersion table ----
MAX_VERSIONS == 50

\* the empty table; a row is (autoincrement id, documentId, snapshot), and rows are
\* created in the order of their ids (createdAt grows from one create to the next)
NoVersions == [next |-> 1, rows |-> {}]

\* prisma.documentVersion.create
documentVersionCreate(V, d, snap) ==
    [next |-> V.next + 1,
     rows |-> V.rows \cup {[id |-> V.next, d |-> d, snap |-> snap]}]

\* prisma.documentVersion.findMany({where: {documentId}}): the rows of document d
VersionsOf(V, d) == {r \in V.rows : r.d = d}

\* ... with orderBy createdAt asc and take k: the ids of the k oldest rows of d
OldestIds(V, d, k) ==
    {r.id : r \in {q \in VersionsOf(V, d) :
                      Cardinality({o \in VersionsOf(V, d) : o.id < q.id}) < k}}

\* prisma.documentVersion.deleteMany({where: {id: {in: ids}}})
documentVersionDeleteMany(V, ids) ==
    [V EXCEPT !.rows = {r \in @ : r.id \notin ids}]

NoTimer == [armed |-> FALSE, m |-> 0, g |-> 0, age |-> 0]

IdleTask == [kind |-> "idle", pc |-> "idle", stk |-> <<>>, d |-> "d1", m |-> 0,
             g |-> 0, merged |-> {}, n |-> 0, snap |-> {}, trig |-> "none",
             raw |-> NoCia, val |-> <<0, 0, 0>>, perr |-> FALSE, did |-> FALSE,
             ids |-> {}, lock |-> 0, early |-> FALSE]

NewMeta(d, g) ==
    [d |-> d, pendingUpdates |-> <<>>, flushTimer |-> 0, compactionTimer |-> 0,
     updatesSinceLastCompaction |-> 0, yjsDocument |-> g, listenerAttached |-> FALSE,
     versionDue |-> TRUE, owner |-> 0, queue |-> <<>>, since |-> DEBOUNCE_DELAY_MS,
     intervals |-> 0]

\* an unused slot of the metadata table
NoMeta == [d |-> "", pendingUpdates |-> <<>>, flushTimer |-> 0, compactionTimer |-> 0,
     updatesSinceLastCompaction |-> 0, yjsDocument |-> 0, listenerAttached |-> FALSE,
     versionDue |-> TRUE, owner |-> 0, queue |-> <<>>, since |-> DEBOUNCE_DELAY_MS,
     intervals |-> 0]

\* (attached, loads, binds: how many update listeners the Y.Doc has, and how many
\* loadDocFromDb and bindState calls it was passed to)
NoDoc == [d |-> "", state |-> {}, marker |-> FALSE, listener |-> "none", lm |-> 0,
          observer |-> FALSE, loadOk |-> TRUE, attached |-> 0, loads |-> 0, binds |-> 0]

\* positions a task runs from without waiting for storage or for a mutex
ReadyPcs == {"b_woken", "f_crit", "f_written", "f_catch", "f_exit",
             "c_check", "c_crit", "c_after", "c_catch", "c_exit",
             "s_force", "s_close", "s_crit", "s_exit", "w_stop",
             "p_begin", "r_crit", "r_exit", "ff_compact", "ff_done"}

Ready(t) == task[t].pc \in ReadyPcs

\* shutdown awaits Promise.all(flushPromises) and every one of them has settled
DrainDone == proc = "draining" /\ \A t \in TaskIds : task[t].kind # "shutdown"

\* no micro-task is runnable: the event loop takes the next timer, I/O or client event
Quiet == (\A t \in TaskIds : ~Ready(t)) /\ ~DrainDone

FreeTask(t) == task[t].kind = "idle" /\ \A s \in TaskIds : s < t => task[s].kind # "idle"

\* ---- the in-memory state the synchronous helpers work on ----
Mem == [metas |-> metas, metaMap |-> metaMap, nmeta |-> nmeta,
        ftimer |-> ftimer, dirty |-> dirty]

\* the instance getOrCreateMeta(d, ..) returns in memory state S
MetaId(S, d) == IF S.metaMap[d] # 0 THEN S.metaMap[d] ELSE S.nmeta + 1

\* a getOrCreateMeta that builds new metadata on every call
getOrCreateMetaAlwaysNew(S, d, g) ==
    IF S.metaMap[d] = 0
    THEN [S EXCEPT !.metas[S.nmeta + 1] = NewMeta(d, g),
                   !.metaMap[d] = S.nmeta + 1,
                   !.nmeta = S.nmeta + 1]
    ELSE [S EXCEPT !.metas[S.metaMap[d]] = NewMeta(d, g)]

\* persistence.ts getOrCreateMeta: the memory state after the call (g = 0: no yjsDoc given)
getOrCreateMeta(S, d, g) ==
    IF S.metaMap[d] = 0
    THEN [S EXCEPT !.metas[S.nmeta + 1] = NewMeta(d, g),
                   !.metaMap[d] = S.nmeta + 1,
                   !.nmeta = S.nmeta + 1]
    ELSE IF g # 0
         THEN [S EXCEPT !.metas[S.metaMap[d]].yjsDocument = g]
         ELSE S

FreeTimers(tm) == {i \in TimerIds : ~tm[i].armed}
LowestFree(tm) == CHOOSE i \in FreeTimers(tm) : \A j \in FreeTimers(tm) : i <= j

\* clearTimeout(handle): the timer leaves the event loop
clearTimeout(tm, handle) == IF handle = 0 THEN tm ELSE [tm EXCEPT ![handle] = NoTimer]

\* a scheduleFlush that arms a new timer without cancelling the armed one
scheduleFlushNoCancel(S, d, g) ==
    LET S1 == getOrCreateMeta(S, d, g)
        m == MetaId(S, d)
        id == LowestFree(S1.ftimer)
    IN  [S1 EXCEPT !.ftimer[id] = [armed |-> TRUE, m |-> m, g |-> g, age |-> 0],
                   !.metas[m].flushTimer = id,
                   !.metas[m].since = 0]

\* persistence.ts scheduleFlush: cancel the armed timer of the metadata, arm a new one
scheduleFlush(S, d, g) ==
    LET S1 == getOrCreateMeta(S, d, g)
        m == MetaId(S, d)
        tm == clearTimeout(S1.ftimer, S1.metas[m].flushTimer)
        id == LowestFree(tm)
    IN  [S1 EXCEPT !.ftimer = [tm EXCEPT ![id] = [armed |-> TRUE, m |-> m, g |-> g, age |-> 0]],
                   !.metas[m].flushTimer = id,
                   !.metas[m].since = 0]

\* persistence.ts startCompactionTimer: arm the interval once per metadata instance
startCompactionTimer(S, d, g) ==
    LET S1 == getOrCreateMeta(S, d, g)
        m == MetaId(S, d)
    IN  IF S1.metas[m].compactionTimer # 0 THEN S1
        ELSE [S1 EXCEPT !.metas[m].compactionTimer = g,
                        !.metas[m].intervals = @ + 1]

\* ProjectionManager.markAllDirty / markDirty for the one registered projection "cia"
markAllDirty(S, d) == [S EXCEPT !.dirty[d] = TRUE]
markDirty(S, d) == [S EXCEPT !.dirty[d] = TRUE]

\* an update listener that does not look at the origin
bindStateListenerNoFilter(S, d, g, update, origin) ==
    LET S1 == getOrCreateMeta(S, d, g)
        m == MetaId(S, d)
        S2 == [S1 EXCEPT !.metas[m].pendingUpdates = Append(@, update)]
    IN  scheduleFlush(S2, d, g)

\* server.ts bindState: the doc.on("update") listener
bindStateListener(S, d, g, update, origin) ==
    IF origin = YJS_ORIGIN_PERSISTENCE THEN S
    ELSE LET S1 == getOrCreateMeta(S, d, g)
             m == MetaId(S, d)
             S2 == [S1 EXCEPT !.metas[m].pendingUpdates = Append(@, update)]
         IN  scheduleFlush(S2, d, g)

\* persistence.ts attachDocument: the doc.on("update") listener; meta is the closure's
attachListener(S, d, g, lm, update, origin) ==
    IF origin = YJS_ORIGIN_PERSISTENCE THEN S
    ELSE LET S1 == [S EXCEPT !.metas[lm].pendingUpdates = Append(@, update)]
         IN  scheduleFlush(markAllDirty(S1, d), d, g)

\* cia-projection bind: ciaMap.observe fires on every change of the map, whatever the origin
ciaObserver(S, d) == markDirty(S, d)

\* the callbacks a change of Y.Doc g by `update` runs: observers, then update listeners
Notify(S, g, update, origin) ==
    LET d == ydoc[g].d
        S1 == IF ydoc[g].observer THEN ciaObserver(S, d) ELSE S
    IN  CASE ydoc[g].listener = "server" -> bindStateListener(S1, d, g, update, origin)
          [] ydoc[g].listener = "attach" -> attachListener(S1, d, g, ydoc[g].lm, update, origin)
          [] OTHER -> S1

\* Y.applyUpdate(doc, update, origin): callbacks run only when the update changes the doc
applyUpdateMem(S, g, st, update, origin) ==
    IF update \subseteq st THEN S ELSE Notify(S, g, update, origin)

SetMem(S) ==
    /\ metas' = S.metas
    /\ metaMap' = S.metaMap
    /\ nmeta' = S.nmeta
    /\ ftimer' = S.ftimer
    /\ dirty' = S.dirty

\* ---- document content: every edit sets the three fields of the cia map ----
\* what the edits of the default deployment write
DefaultEdit(u) ==
    IF u % 2 = 1
    THEN [confidentiality |-> "Low", integrity |-> "Medium", availability |-> "High"]
    ELSE [confidentiality |-> "Critical", integrity |-> "Other",
          availability |-> "undefined"]

\* ciaMap.toJSON() of a document state: the last writer wins
CiaOf(st) ==
    IF st = {} THEN NoCia
    ELSE content[CHOOSE u \in st : \A v \in st : v <= u]

\* cia-projection.ts parseCiaLevel
parseCiaLevel(value) ==
    CASE value = "Low" -> 1
      [] value = "Medium" -> 2
      [] value = "High" -> 3
      [] value = "Critical" -> 3
      [] OTHER -> 0

\* cia-projection.ts apply, up to its await: the three columns of document.update
ciaColumns(rawCia) ==
    <<parseCiaLevel(rawCia.confidentiality), parseCiaLevel(rawCia.integrity),
      parseCiaLevel(rawCia.availability)>>

\* cia-projection.ts: the triggers the projection is registered for, and shouldRun
triggers == {"flush", "compact", "close"}
shouldRun == TRUE

\* ---- tasks: call, return, mutex ----
\* return from the current async function to the continuation on top of the stack
Return(rec) ==
    IF rec.stk = <<>> THEN IdleTask
    ELSE [rec EXCEPT !.pc = Head(rec.stk), !.stk = Tail(rec.stk)]

GrantPc(pc) ==
    CASE pc = "f_wait" -> "f_crit"
      [] pc = "c_wait" -> "c_crit"
      [] pc = "s_wait" -> "s_crit"
      [] pc = "r_wait" -> "r_crit"
      [] OTHER -> pc

\* async-mutex runExclusive, acquire part: the caller enters or queues (FIFO)
Acquire(t, rec, ms, m, critPc, waitPc) ==
    IF ms[m].owner = 0
    THEN /\ metas' = [ms EXCEPT ![m].owner = t]
         /\ task' = [task EXCEPT ![t] = [rec EXCEPT !.pc = critPc]]
    ELSE /\ metas' = [ms EXCEPT ![m].queue = Append(@, t)]
         /\ task' = [task EXCEPT ![t] = [rec EXCEPT !.pc = waitPc]]

\* async-mutex runExclusive, release part: hand the lock to the first waiter;
\* the releasing task t continues as record rec
Release(t, rec, m) ==
    IF metas[m].queue = <<>>
    THEN /\ metas' = [metas EXCEPT ![m].owner = 0]
         /\ task' = [task EXCEPT ![t] = rec]
    ELSE LET w == Head(metas[m].queue) IN
         /\ metas' = [metas EXCEPT ![m].owner = w, ![m].queue = Tail(@)]
         /\ task' = [task EXCEPT ![t] = rec, ![w].pc = GrantPc(@)]

\* persistence.ts flushPendingUpdates, up to its first await: look the metadata up,
\* return at once when there is none, else take or queue for its mutex
EnterFlush(t, rec, ms) ==
    LET m == metaMap[rec.d] IN
    IF m = 0
    THEN /\ task' = [task EXCEPT ![t] = Return([rec EXCEPT !.m = 0])]
         /\ metas' = ms
    ELSE Acquire(t, [rec EXCEPT !.m = m], ms, m, "f_crit", "f_wait")

\* ---- storage failure injection ----
MayFail == fails < MaxFails

\* ---- history ----
\* (beside hist, the field `early` of a task is history: it marks the activations
\* that were inside flushPendingUpdates when shutdown started)
Captured(S) == \E m \in MetaIds :
                  Len(S.metas[m].pendingUpdates) > Len(metas[m].pendingUpdates)

\* (hist.versioned: per document, the ids of the version rows created for it;
\* hist.response: the status of the last response of the revert or save route,
\* 0: none yet;
\* hist.reverted: the updates revert transactions emitted;
\* hist.autoRecent: per document, the ids of the versions compactDocument created for
\* it less than AUTO_VERSION_INTERVAL_MS ago; hist.elapsed: how often that interval
\* elapsed; hist.before: the updates the change callbacks of the documents then
\* bound and registered had captured when shutdown started)
\* the last successful application of the projection to a document: the cia map
\* it read, the columns it wrote, and how many applications in a row read that map
NoApplied == [raw |-> NoCia, cols |-> <<0, 0, 0>>, n |-> 0]

NoHist == [captured |-> {}, rows |-> 0, stored |-> {}, atShutdown |-> {},
           applied |-> [d \in Docs |-> NoApplied],
           versioned |-> [d \in Docs |-> {}], response |-> 0,
           reverted |-> {}, autoRecent |-> [d \in Docs |-> {}], elapsed |-> 0,
           before |-> {}]

\* ---- initial state ----
Init ==
    /\ phase = [d \in Docs |-> "unbound"]
    /\ live = [d \in Docs |-> 0]
    /\ ndocs = 0
    /\ ydoc = [g \in DocInsts |-> NoDoc]
    /\ metaMap = [d \in Docs |-> 0]
    /\ nmeta = 0
    /\ metas = [m \in MetaIds |-> NoMeta]
    /\ ftimer = [i \in TimerIds |-> NoTimer]
    /\ task = [t \in TaskIds |-> IdleTask]
    /\ snapshot = [d \in Docs |-> [has |-> FALSE, bytes |-> {}]]
    /\ log = [d \in Docs |-> <<>>]
    /\ versions = NoVersions
    /\ sidecar = [d \in Docs |-> <<0, 0, 0>>]
    /\ projState = [d \in Docs |-> "norow"]
    /\ dirty = [d \in Docs |-> FALSE]
    /\ revertRoute = "mutex"
    /\ bindStateLocks = [d \in Docs |-> 0]
    /\ wiring \in {"server", "attach"}
    /\ served = {"d1"}
    /\ content = [u \in AllUpdates |-> DefaultEdit(u)]
    /\ proc = "up"
    /\ nextUpd = 1
    /\ fails = 0
    /\ hist = NoHist

\* ---- bind ----
\* server.ts bindState up to its first await (the listener is attached, the load issued),
\* or the same with persistence.ts attachDocument attaching the listener
Connect(d) ==
    /\ Quiet
    /\ d \in served
    /\ phase[d] = "unbound"
    /\ ndocs < MaxBinds
    /\ \E t \in TaskIds :
        /\ FreeTask(t)
        /\ LET g == ndocs + 1
               S == IF wiring = "attach" THEN getOrCreateMeta(Mem, d, g) ELSE Mem
               m == IF wiring = "attach" THEN MetaId(Mem, d) ELSE 0
               S1 == IF wiring = "attach"
                     THEN [S EXCEPT !.metas[m].listenerAttached = TRUE] ELSE S
           IN  /\ ydoc' = [ydoc EXCEPT ![g] =
                     [d |-> d, state |-> {}, marker |-> (wiring = "server"),
                      listener |-> wiring, lm |-> m,
                      observer |-> (wiring = "attach"), loadOk |-> TRUE,
                      attached |-> 1, loads |-> 1, binds |-> 1]]
               /\ SetMem(S1)
               /\ task' = [task EXCEPT ![t] =
                     [IdleTask EXCEPT !.kind = "bind", !.pc = "l_snap", !.d = d, !.g = g]]
        /\ ndocs' = ndocs + 1
        /\ bindStateLocks' = IF wiring = "server"
                             THEN [bindStateLocks EXCEPT ![d] = t] ELSE bindStateLocks
    /\ live' = [live EXCEPT ![d] = ndocs + 1]
    /\ phase' = [phase EXCEPT ![d] = "binding"]
    /\ UNCHANGED <<dbVars, cfgVars, proc, nextUpd, fails, hist>>

\* the tasks after task t resolved its lock promise: whoever awaits it is resumed
Resolved(t) ==
    [s \in TaskIds |->
        IF s = t THEN IdleTask
        ELSE IF task[s].pc = "b_wait" /\ task[s].lock = t
             THEN [task[s] EXCEPT !.pc = "b_woken"]
             ELSE task[s]]

\* the tail of bindState after loadDocFromDb returned: startCompactionTimer, then the
\* finally block deletes the entry of bindStateLocks and resolves the lock promise
BindFinish(t, S) ==
    /\ SetMem(startCompactionTimer(S, task[t].d, task[t].g))
    /\ task' = Resolved(t)
    /\ bindStateLocks' = [bindStateLocks EXCEPT ![task[t].d] = 0]
    /\ phase' = [phase EXCEPT ![task[t].d] = "bound"]

\* loadDocFromDb: documentSnapshot.findUnique resolved; the snapshot is applied
LoadSnapOk(t) ==
    /\ Quiet
    /\ task[t].pc = "l_snap"
    /\ FreeTimers(ftimer) # {}
    /\ LET g == task[t].g
           d == task[t].d
           bytes == IF snapshot[d].has THEN snapshot[d].bytes ELSE {}
       IN  /\ SetMem(applyUpdateMem(Mem, g, ydoc[g].state, bytes, YJS_ORIGIN_PERSISTENCE))
           /\ ydoc' = [ydoc EXCEPT ![g].state = @ \cup bytes]
    /\ task' = [task EXCEPT ![t].pc = "l_rows"]
    /\ UNCHANGED <<phase, live, ndocs, dbVars, cfgVars, bindStateLocks, proc, nextUpd, fails, hist>>

\* loadDocFromDb: documentSnapshot.findUnique threw; the error is logged and swallowed
LoadSnapFail(t) ==
    /\ Quiet
    /\ MayFail
    /\ task[t].pc = "l_snap"
    /\ fails' = fails + 1
    /\ ydoc' = [ydoc EXCEPT ![task[t].g].loadOk = FALSE]
    /\ BindFinish(t, Mem)
    /\ UNCHANGED <<live, ndocs, dbVars, cfgVars, proc, nextUpd, hist>>

RECURSIVE ApplyRowsDescending(_, _, _, _)
\* a loader that replays the rows newest first
ApplyRowsDescending(S, g, st, rows) ==
    IF rows = <<>> THEN [mem |-> S, state |-> st, applied |-> <<>>]
    ELSE LET last == rows[Len(rows)]
             r == ApplyRowsDescending(
                     applyUpdateMem(S, g, st, last, YJS_ORIGIN_PERSISTENCE),
                     g, st \cup last, SubSeq(rows, 1, Len(rows) - 1))
         IN  [r EXCEPT !.applied = <<last>> \o @]

RECURSIVE ApplyRows(_, _, _, _)
\* the for loop of loadDocFromDb: apply every row in ascending id order
\* (applied: the blobs in the order they were passed to Y.applyUpdate)
ApplyRows(S, g, st, rows) ==
    IF rows = <<>> THEN [mem |-> S, state |-> st, applied |-> <<>>]
    ELSE LET r == ApplyRows(applyUpdateMem(S, g, st, Head(rows), YJS_ORIGIN_PERSISTENCE),
                            g, st \cup Head(rows), Tail(rows))
         IN  [r EXCEPT !.applied = <<Head(rows)>> \o @]

\* loadDocFromDb: documentUpdate.findMany resolved; the rows are replayed
LoadRowsOk(t) ==
    /\ Quiet
    /\ task[t].pc = "l_rows"
    /\ FreeTimers(ftimer) # {}
    /\ LET g == task[t].g
           r == ApplyRows(Mem, g, ydoc[g].state, log[task[t].d])
       IN  /\ ydoc' = [ydoc EXCEPT ![g].state = r.state]
           /\ BindFinish(t, r.mem)
    /\ UNCHANGED <<live, ndocs, dbVars, cfgVars, proc, nextUpd, fails, hist>>

\* loadDocFromDb: documentUpdate.findMany threw; the error is logged and swallowed
LoadRowsFail(t) ==
    /\ Quiet
    /\ MayFail
    /\ task[t].pc = "l_rows"
    /\ fails' = fails + 1
    /\ ydoc' = [ydoc EXCEPT ![task[t].g].loadOk = FALSE]
    /\ BindFinish(t, Mem)
    /\ UNCHANGED <<live, ndocs, dbVars, cfgVars, proc, nextUpd, hist>>

\* ---- duplicate bind (server.ts bindState called again for a document) ----
\* bindState calls per Y.Doc instance in a run of the model
MaxBindCalls == 2

\* a bindState that attaches without looking at the persistence marker
BindLockedNoMarker(t, d, g, yd) ==
    /\ task' = [task EXCEPT ![t] =
                  [IdleTask EXCEPT !.kind = "bind", !.pc = "l_snap", !.d = d, !.g = g]]
    /\ ydoc' = [yd EXCEPT ![g].marker = TRUE, ![g].listener = "server",
                          ![g].attached = @ + 1, ![g].loads = @ + 1]
    /\ bindStateLocks' = [bindStateLocks EXCEPT ![d] = t]

\* bindState from the creation of its lock promise (yd: the Y.Doc instances): return
\* through the finally block when the marker is set, else set the marker, attach the
\* update listener and issue the load
BindLocked(t, d, g, yd) ==
    IF yd[g].marker
    THEN /\ task' = [task EXCEPT ![t] = IdleTask]
         /\ ydoc' = yd
         /\ bindStateLocks' = [bindStateLocks EXCEPT ![d] = 0]
    ELSE /\ task' = [task EXCEPT ![t] =
                       [IdleTask EXCEPT !.kind = "bind", !.pc = "l_snap", !.d = d, !.g = g]]
         /\ ydoc' = [yd EXCEPT ![g].marker = TRUE, ![g].listener = "server",
                               ![g].attached = @ + 1, ![g].loads = @ + 1]
         /\ bindStateLocks' = [bindStateLocks EXCEPT ![d] = t]

\* bindState is called again for the live Y.Doc of d: it awaits the lock promise the
\* map holds, or goes on at once when the map holds none
BindAgain(d) ==
    /\ Quiet
    /\ wiring = "server"
    /\ phase[d] \in {"binding", "bound"}
    /\ ydoc[live[d]].binds < MaxBindCalls
    /\ \E t \in TaskIds :
        /\ FreeTask(t)
        /\ LET g == live[d]
               yd == [ydoc EXCEPT ![g].binds = @ + 1]
           IN  IF bindStateLocks[d] # 0
               THEN /\ task' = [task EXCEPT ![t] =
                                  [IdleTask EXCEPT !.kind = "bind", !.pc = "b_wait", !.d = d,
                                                   !.g = g, !.lock = bindStateLocks[d]]]
                    /\ ydoc' = yd
                    /\ UNCHANGED bindStateLocks
               ELSE BindLocked(t, d, g, yd)
    /\ UNCHANGED <<phase, live, ndocs, metaMap, nmeta, metas, ftimer, dbVars, dirty,
                   cfgVars, proc, nextUpd, fails, hist>>

\* bindState after `await existingLock`: return when the marker is set, else go on
BindRecheck(t) ==
    /\ task[t].pc = "b_woken"
    /\ IF ydoc[task[t].g].marker
       THEN /\ task' = [task EXCEPT ![t] = IdleTask]
            /\ UNCHANGED <<ydoc, bindStateLocks>>
       ELSE BindLocked(t, task[t].d, task[t].g, ydoc)
    /\ UNCHANGED <<phase, live, ndocs, metaMap, nmeta, metas, ftimer, dbVars, dirty,
                   cfgVars, proc, nextUpd, fails, hist>>


\* ---- mutation ----
\* a client edit of the live document: the change callbacks run synchronously
Mutate(d) ==
    /\ Quiet
    /\ phase[d] \in {"binding", "bound"}
    /\ nextUpd <= MaxUpdates
    /\ FreeTimers(ftimer) # {}
    /\ LET g == live[d]
           S == Notify(Mem, g, {nextUpd}, "client")
       IN  /\ ydoc' = [ydoc EXCEPT ![g].state = @ \cup {nextUpd}]
           /\ SetMem(S)
           /\ hist' = [hist EXCEPT !.captured =
                         IF Captured(S) THEN @ \cup {<<g, nextUpd>>} ELSE @]
    /\ nextUpd' = nextUpd + 1
    /\ UNCHANGED <<phase, live, ndocs, task, dbVars, cfgVars, bindStateLocks, proc, fails>>

\* ---- time ----
\* TickMs milliseconds pass
Tick ==
    /\ Quiet
    /\ \E i \in TimerIds : ftimer[i].armed /\ ftimer[i].age < DEBOUNCE_DELAY_MS
    /\ ftimer' = [i \in TimerIds |->
                    IF ftimer[i].armed
                    THEN [ftimer[i] EXCEPT !.age = Min(@ + TickMs, DEBOUNCE_DELAY_MS)]
                    ELSE ftimer[i]]
    /\ metas' = [m \in MetaIds |->
                    IF metas[m].flushTimer # 0
                    THEN [metas[m] EXCEPT !.since = Min(@ + TickMs, DEBOUNCE_DELAY_MS)]
                    ELSE metas[m]]
    /\ UNCHANGED <<phase, live, ndocs, ydoc, metaMap, nmeta, task, dbVars, dirty,
                   cfgVars, bindStateLocks, proc, nextUpd, fails, hist>>

\* AUTO_VERSION_INTERVAL_MS milliseconds pass with nothing running: for every
\* metadata now - meta.lastVersionCreatedAt >= AUTO_VERSION_INTERVAL_MS, every armed
\* debounce timer is due
AutoVersionIntervalElapses ==
    /\ Quiet
    /\ hist.elapsed < MaxIntervals
    /\ AUTO_VERSION_INTERVAL_MS >= DEBOUNCE_DELAY_MS
    /\ ftimer' = [i \in TimerIds |->
                    IF ftimer[i].armed
                    THEN [ftimer[i] EXCEPT !.age = DEBOUNCE_DELAY_MS]
                    ELSE ftimer[i]]
    /\ metas' = [m \in MetaIds |->
                    [metas[m] EXCEPT !.versionDue = TRUE,
                                     !.since = IF metas[m].flushTimer # 0
                                               THEN DEBOUNCE_DELAY_MS ELSE @]]
    /\ hist' = [hist EXCEPT !.autoRecent = [d \in Docs |-> {}], !.elapsed = @ + 1]
    /\ UNCHANGED <<phase, live, ndocs, ydoc, metaMap, nmeta, task, dbVars, dirty,
                   cfgVars, bindStateLocks, proc, nextUpd, fails>>

\* ---- flush ----
\* persistence.ts mergePendingUpdates
mergePendingUpdates(meta) == mergeUpdates(meta.pendingUpdates)

\* flushPendingUpdates after a successful write: meta.pendingUpdates = []
\* (n is the number of entries that were merged into the row)
TrimPending(pending, n) == <<>>

\* the debounce timer i fires: meta.flushTimer = null; void flushPendingUpdates(docId, doc)
TimerFire(i) ==
    /\ Quiet
    /\ ftimer[i].armed
    /\ ftimer[i].age >= DEBOUNCE_DELAY_MS
    /\ \E t \in TaskIds :
        /\ FreeTask(t)
        /\ LET m == ftimer[i].m IN
           EnterFlush(t, [IdleTask EXCEPT !.kind = "flush", !.d = metas[m].d,
                                         !.g = ftimer[i].g],
                      [metas EXCEPT ![m].flushTimer = 0])
    /\ ftimer' = [ftimer EXCEPT ![i] = NoTimer]
    /\ UNCHANGED <<phase, live, ndocs, ydoc, metaMap, nmeta, dbVars, dirty, cfgVars, bindStateLocks, proc,
                   nextUpd, fails, hist>>

\* a flushPendingUpdates that returns at once when nothing is pending
FlushCritSkipsProjections(t) ==
    /\ task[t].pc = "f_crit"
    /\ LET meta == metas[task[t].m] IN
       IF meta.pendingUpdates = <<>>
       THEN task' = [task EXCEPT ![t].pc = "f_exit"]
       ELSE task' = [task EXCEPT ![t].pc = "f_write",
                                 ![t].merged = mergePendingUpdates(meta),
                                 ![t].n = Len(meta.pendingUpdates)]
    /\ UNCHANGED <<phase, live, ndocs, ydoc, metaMap, nmeta, metas, ftimer, dbVars,
                   dirty, cfgVars, bindStateLocks, proc, nextUpd, fails, hist>>


\* flushPendingUpdates inside runExclusive: nothing pending -> projections only;
\* else merge the buffer and issue documentUpdate.create
FlushCrit(t) ==
    /\ task[t].pc = "f_crit"
    /\ LET meta == metas[task[t].m] IN
       IF meta.pendingUpdates = <<>>
       THEN task' = [task EXCEPT ![t].pc = "p_begin", ![t].trig = "flush",
                                 ![t].stk = <<"f_exit">> \o @]
       ELSE task' = [task EXCEPT ![t].pc = "f_write",
                                 ![t].merged = mergePendingUpdates(meta),
                                 ![t].n = Len(meta.pendingUpdates)]
    /\ UNCHANGED <<phase, live, ndocs, ydoc, metaMap, nmeta, metas, ftimer, dbVars,
                   dirty, cfgVars, bindStateLocks, proc, nextUpd, fails, hist>>

\* persistMergedUpdate resolved: one row is appended to the update log
FlushWriteOk(t) ==
    /\ Quiet
    /\ task[t].pc = "f_write"
    /\ log' = [log EXCEPT ![task[t].d] = Append(@, task[t].merged)]
    /\ task' = [task EXCEPT ![t].pc = "f_written"]
    /\ hist' = [hist EXCEPT !.rows = @ + 1, !.stored = @ \cup task[t].merged]
    /\ UNCHANGED <<phase, live, ndocs, ydoc, metaMap, nmeta, metas, ftimer, snapshot,
                   versions, sidecar, projState, dirty, cfgVars, bindStateLocks, proc, nextUpd, fails>>

\* a flushPendingUpdates without its catch block: the write error leaves runExclusive
\* (which releases the mutex) and rejects the caller
FlushWriteFailRethrows(t) ==
    /\ Quiet
    /\ MayFail
    /\ task[t].pc = "f_write"
    /\ Release(t, IdleTask, task[t].m)
    /\ fails' = fails + 1
    /\ UNCHANGED <<phase, live, ndocs, ydoc, metaMap, nmeta, ftimer, dbVars,
                   dirty, cfgVars, bindStateLocks, proc, nextUpd, hist>>


\* persistMergedUpdate threw: the catch block is entered
FlushWriteFail(t) ==
    /\ Quiet
    /\ MayFail
    /\ task[t].pc = "f_write"
    /\ task' = [task EXCEPT ![t].pc = "f_catch"]
    /\ fails' = fails + 1
    /\ UNCHANGED <<phase, live, ndocs, ydoc, metaMap, nmeta, metas, ftimer, dbVars,
                   dirty, cfgVars, bindStateLocks, proc, nextUpd, hist>>

\* flushPendingUpdates after the write: clear the buffer, count the row, run projections
FlushWritten(t) ==
    /\ task[t].pc = "f_written"
    /\ LET m == task[t].m IN
       metas' = [metas EXCEPT
                   ![m].pendingUpdates = TrimPending(@, task[t].n),
                   ![m].updatesSinceLastCompaction = @ + 1]
    /\ task' = [task EXCEPT ![t].pc = "p_begin", ![t].trig = "flush",
                            ![t].stk = <<"f_exit">> \o @]
    /\ UNCHANGED <<phase, live, ndocs, ydoc, metaMap, nmeta, ftimer, dbVars, dirty,
                   cfgVars, bindStateLocks, proc, nextUpd, fails, hist>>

\* a catch block that drops the buffer it failed to write
FlushCatchClears(t) ==
    /\ task[t].pc = "f_catch"
    /\ task' = [task EXCEPT ![t].pc = "f_exit"]
    /\ metas' = [metas EXCEPT ![task[t].m].pendingUpdates = <<>>]
    /\ UNCHANGED <<phase, live, ndocs, ydoc, metaMap, nmeta, ftimer, dbVars,
                   dirty, cfgVars, bindStateLocks, proc, nextUpd, fails, hist>>

\* the catch block of flushPendingUpdates: logPersistenceError, nothing else
FlushCatch(t) ==
    /\ task[t].pc = "f_catch"
    /\ task' = [task EXCEPT ![t].pc = "f_exit"]
    /\ UNCHANGED <<phase, live, ndocs, ydoc, metaMap, nmeta, metas, ftimer, dbVars,
                   dirty, cfgVars, bindStateLocks, proc, nextUpd, fails, hist>>

\* runExclusive of flushPendingUpdates ends: the mutex is released, the caller resumes
FlushExit(t) ==
    /\ task[t].pc = "f_exit"
    /\ Release(t, Return([task[t] EXCEPT !.merged = {}, !.n = 0]), task[t].m)
    /\ UNCHANGED <<phase, live, ndocs, ydoc, metaMap, nmeta, ftimer, dbVars, dirty,
                   cfgVars, bindStateLocks, proc, nextUpd, fails, hist>>

\* a runner that applies on the flush trigger whether the projection is dirty or not
ProjBeginIgnoresDirty(t) ==
    /\ task[t].pc = "p_begin"
    /\ task' = [task EXCEPT ![t].pc = "p_apply",
                            ![t].raw = CiaOf(ydoc[task[t].g].state),
                        ![t].val = ciaColumns(CiaOf(ydoc[task[t].g].state))]
    /\ UNCHANGED <<phase, live, ndocs, ydoc, metaMap, nmeta, metas, ftimer, dbVars,
                   dirty, cfgVars, bindStateLocks, proc, nextUpd, fails, hist>>


\* ---- projections ----
\* ProjectionManager.runProjections for "cia": the trigger and dirty gate, then apply
\* reads the cia map and issues document.update
ProjBegin(t) ==
    /\ task[t].pc = "p_begin"
    /\ IF \/ task[t].trig \notin triggers
          \/ (task[t].trig = "flush" /\ ~dirty[task[t].d])
          \/ ~shouldRun
       THEN task' = [task EXCEPT ![t] = Return([@ EXCEPT !.trig = "none"])]
       ELSE task' = [task EXCEPT ![t].pc = "p_apply",
                        ![t].raw = CiaOf(ydoc[task[t].g].state),
                        ![t].val = ciaColumns(CiaOf(ydoc[task[t].g].state))]
    /\ UNCHANGED <<phase, live, ndocs, ydoc, metaMap, nmeta, metas, ftimer, dbVars,
                   dirty, cfgVars, bindStateLocks, proc, nextUpd, fails, hist>>

\* an apply that adds the levels to the columns instead of setting them
ProjApplyOkAccumulates(t) ==
    /\ Quiet
    /\ task[t].pc = "p_apply"
    /\ sidecar' = [sidecar EXCEPT ![task[t].d] =
                     [k \in 1..3 |-> sidecar[task[t].d][k] + task[t].val[k]]]
    /\ task' = [task EXCEPT ![t].pc = "p_state", ![t].perr = FALSE]
    /\ hist' = [hist EXCEPT !.applied[task[t].d] =
                  [raw |-> task[t].raw, cols |-> task[t].val,
                   n |-> IF @.n > 0 /\ @.raw = task[t].raw THEN 2 ELSE 1]]
    /\ UNCHANGED <<phase, live, ndocs, ydoc, metaMap, nmeta, metas, ftimer, snapshot,
                   log, versions, projState, dirty, cfgVars, bindStateLocks, proc, nextUpd, fails>>


\* document.update resolved; projectionState.upsert (lastError null) is issued
ProjApplyOk(t) ==
    /\ Quiet
    /\ task[t].pc = "p_apply"
    /\ sidecar' = [sidecar EXCEPT ![task[t].d] = task[t].val]
    /\ task' = [task EXCEPT ![t].pc = "p_state", ![t].perr = FALSE]
    /\ hist' = [hist EXCEPT !.applied[task[t].d] =
                  [raw |-> task[t].raw, cols |-> task[t].val,
                   n |-> IF @.n > 0 /\ @.raw = task[t].raw THEN 2 ELSE 1]]
    /\ UNCHANGED <<phase, live, ndocs, ydoc, metaMap, nmeta, metas, ftimer, snapshot,
                   log, versions, projState, dirty, cfgVars, bindStateLocks, proc, nextUpd, fails>>

\* a runner that lets the exception of apply reach the caller of runProjections
ProjApplyFailPropagates(t) ==
    /\ Quiet
    /\ MayFail
    /\ task[t].pc = "p_apply"
    /\ task' = [task EXCEPT ![t].pc = IF Head(task[t].stk) = "f_exit" THEN "f_catch"
                                      ELSE IF Head(task[t].stk) = "c_after" THEN "c_catch"
                                      ELSE "s_exit",
                            ![t].stk = Tail(@)]
    /\ fails' = fails + 1
    /\ UNCHANGED <<phase, live, ndocs, ydoc, metaMap, nmeta, metas, ftimer, dbVars,
                   dirty, cfgVars, bindStateLocks, proc, nextUpd, hist>>


\* document.update threw; projectionState.upsert (lastError message) is issued
ProjApplyFail(t) ==
    /\ Quiet
    /\ MayFail
    /\ task[t].pc = "p_apply"
    /\ task' = [task EXCEPT ![t].pc = "p_state", ![t].perr = TRUE]
    /\ fails' = fails + 1
    /\ UNCHANGED <<phase, live, ndocs, ydoc, metaMap, nmeta, metas, ftimer, dbVars,
                   dirty, cfgVars, bindStateLocks, proc, nextUpd, hist>>

\* a runner that clears the dirty flag after a failed apply as well
ProjStateOkAlwaysClears(t) ==
    /\ Quiet
    /\ task[t].pc = "p_state"
    /\ projState' = [projState EXCEPT ![task[t].d] =
                        IF task[t].perr THEN "error" ELSE "null"]
    /\ dirty' = [dirty EXCEPT ![task[t].d] = FALSE]
    /\ task' = [task EXCEPT ![t] =
                  Return([@ EXCEPT !.trig = "none", !.raw = NoCia, !.val = <<0, 0, 0>>,
                            !.perr = FALSE])]
    /\ UNCHANGED <<phase, live, ndocs, ydoc, metaMap, nmeta, metas, ftimer, snapshot,
                   log, versions, sidecar, cfgVars, bindStateLocks, proc, nextUpd, fails, hist>>


\* projectionState.upsert resolved; after a successful apply the dirty flag is cleared
ProjStateOk(t) ==
    /\ Quiet
    /\ task[t].pc = "p_state"
    /\ projState' = [projState EXCEPT ![task[t].d] =
                        IF task[t].perr THEN "error" ELSE "null"]
    /\ dirty' = IF task[t].perr THEN dirty ELSE [dirty EXCEPT ![task[t].d] = FALSE]
    /\ task' = [task EXCEPT ![t] =
                  Return([@ EXCEPT !.trig = "none", !.raw = NoCia, !.val = <<0, 0, 0>>,
                            !.perr = FALSE])]
    /\ UNCHANGED <<phase, live, ndocs, ydoc, metaMap, nmeta, metas, ftimer, snapshot,
                   log, versions, sidecar, cfgVars, bindStateLocks, proc, nextUpd, fails, hist>>

\* projectionState.upsert threw: updateProjectionState swallows it
ProjStateFail(t) ==
    /\ Quiet
    /\ MayFail
    /\ task[t].pc = "p_state"
    /\ dirty' = IF task[t].perr THEN dirty ELSE [dirty EXCEPT ![task[t].d] = FALSE]
    /\ task' = [task EXCEPT ![t] =
                  Return([@ EXCEPT !.trig = "none", !.raw = NoCia, !.val = <<0, 0, 0>>,
                            !.perr = FALSE])]
    /\ fails' = fails + 1
    /\ UNCHANGED <<phase, live, ndocs, ydoc, metaMap, nmeta, metas, ftimer, dbVars,
                   cfgVars, bindStateLocks, proc, nextUpd, hist>>

\* ---- compaction ----
\* a stopCompactionTimer that leaves the flush timer armed
stopCompactionTimerKeepsFlushTimer(S, d) ==
    LET m == S.metaMap[d] IN
    IF m = 0 THEN S
    ELSE [S EXCEPT !.metas[m].compactionTimer = 0,
                   !.dirty[d] = FALSE,
                   !.metaMap[d] = 0]


\* a stopCompactionTimer whose cleanup drops the dirty flags of every document
stopCompactionTimerCleansAll(S, d) ==
    LET m == S.metaMap[d] IN
    IF m = 0 THEN S
    ELSE [S EXCEPT !.metas[m].compactionTimer = 0,
                   !.metas[m].flushTimer = 0,
                   !.ftimer = clearTimeout(S.ftimer, S.metas[m].flushTimer),
                   !.dirty = [e \in Docs |-> FALSE],
                   !.metaMap[d] = 0]

\* persistence.ts stopCompactionTimer: clear both timers, projectionManager.cleanup,
\* drop the metadata instance from the registry
stopCompactionTimer(S, d) ==
    LET m == S.metaMap[d] IN
    IF m = 0 THEN S
    ELSE [S EXCEPT !.metas[m].compactionTimer = 0,
                   !.metas[m].flushTimer = 0,
                   !.ftimer = clearTimeout(S.ftimer, S.metas[m].flushTimer),
                   !.dirty[d] = FALSE,
                   !.metaMap[d] = 0]

\* a compaction that does not flush first
CompactionTickNoFlush(m) ==
    /\ Quiet
    /\ metas[m].compactionTimer # 0
    /\ \E t \in TaskIds :
        /\ FreeTask(t)
        /\ task' = [task EXCEPT ![t] =
                      [IdleTask EXCEPT !.kind = "compact", !.pc = "c_check",
                                       !.d = metas[m].d, !.m = metaMap[metas[m].d],
                                       !.g = metas[m].compactionTimer]]
    /\ UNCHANGED <<phase, live, ndocs, ydoc, metaMap, nmeta, metas, ftimer, dbVars,
                   dirty, cfgVars, bindStateLocks, proc, nextUpd, fails, hist>>

\* the setInterval callback of startCompactionTimer: void compactDocument(docId, doc),
\* which reads the registry and awaits flushPendingUpdates
CompactionTick(m) ==
    /\ Quiet
    /\ metas[m].compactionTimer # 0
    /\ \E t \in TaskIds :
        /\ FreeTask(t)
        /\ EnterFlush(t, [IdleTask EXCEPT !.kind = "compact", !.d = metas[m].d,
                                         !.g = metas[m].compactionTimer,
                                         !.stk = <<"c_check">>],
                      metas)
    /\ UNCHANGED <<phase, live, ndocs, ydoc, metaMap, nmeta, ftimer, dbVars, dirty,
                   cfgVars, bindStateLocks, proc, nextUpd, fails, hist>>

\* compactDocument after its flush: return when the counter is zero, else
\* meta!.mutex.runExclusive (a TypeError rejecting the caller when there is no metadata)
CompactCheck(t) ==
    /\ task[t].pc = "c_check"
    /\ LET m == task[t].m IN
       IF m # 0 /\ metas[m].updatesSinceLastCompaction = 0
       THEN /\ task' = [task EXCEPT ![t] = Return(@)]
            /\ UNCHANGED <<metas, phase>>
       ELSE IF m = 0
       THEN /\ task' = [task EXCEPT ![t] = IdleTask]
            /\ phase' = IF task[t].kind = "close"
                        THEN [phase EXCEPT ![task[t].d] = "unbound"] ELSE phase
            /\ UNCHANGED metas
       ELSE /\ Acquire(t, task[t], metas, m, "c_crit", "c_wait")
            /\ UNCHANGED phase
    /\ UNCHANGED <<live, ndocs, ydoc, metaMap, nmeta, ftimer, dbVars, dirty, cfgVars, bindStateLocks, proc,
                   nextUpd, fails, hist>>

\* inside the mutex: Y.encodeStateAsUpdate(doc), then prisma.$transaction is issued
CompactCrit(t) ==
    /\ task[t].pc = "c_crit"
    /\ task' = [task EXCEPT ![t].pc = "c_txn",
                            ![t].snap = encodeStateAsUpdate(task[t].g),
                            ![t].did = (task[t].kind = "close")]
    /\ UNCHANGED <<phase, live, ndocs, ydoc, metaMap, nmeta, metas, ftimer, dbVars,
                   dirty, cfgVars, bindStateLocks, proc, nextUpd, fails, hist>>

\* the transaction committed: snapshot upserted and every log row of the document
\* deleted, atomically; the compact-triggered projections run next
CompactTxnOk(t) ==
    /\ Quiet
    /\ task[t].pc = "c_txn"
    /\ snapshot' = [snapshot EXCEPT ![task[t].d] = [has |-> TRUE, bytes |-> task[t].snap]]
    /\ log' = [log EXCEPT ![task[t].d] = <<>>]
    /\ task' = [task EXCEPT ![t].pc = "p_begin", ![t].trig = "compact",
                            ![t].stk = <<"c_after">> \o @]
    /\ hist' = [hist EXCEPT !.stored = @ \cup task[t].snap]
    /\ UNCHANGED <<phase, live, ndocs, ydoc, metaMap, nmeta, metas, ftimer, versions,
                   sidecar, projState, dirty, cfgVars, bindStateLocks, proc, nextUpd, fails>>

\* a transaction that fails after its deleteMany took effect
CompactTxnFailDeletes(t) ==
    /\ Quiet
    /\ MayFail
    /\ task[t].pc = "c_txn"
    /\ task' = [task EXCEPT ![t].pc = "c_catch"]
    /\ fails' = fails + 1
    /\ log' = [log EXCEPT ![task[t].d] = <<>>]
    /\ UNCHANGED <<phase, live, ndocs, ydoc, metaMap, nmeta, metas, ftimer, snapshot,
                   versions, sidecar, projState, dirty, cfgVars, bindStateLocks, proc, nextUpd, hist>>

\* the transaction rolled back: nothing stored changes, the catch block is entered
CompactTxnFail(t) ==
    /\ Quiet
    /\ MayFail
    /\ task[t].pc = "c_txn"
    /\ task' = [task EXCEPT ![t].pc = "c_catch"]
    /\ fails' = fails + 1
    /\ UNCHANGED <<phase, live, ndocs, ydoc, metaMap, nmeta, metas, ftimer, dbVars,
                   dirty, cfgVars, bindStateLocks, proc, nextUpd, hist>>

\* after the projections: reset the counter; an auto-version is created when due
CompactAfter(t) ==
    /\ task[t].pc = "c_after"
    /\ LET m == task[t].m IN
       /\ metas' = [metas EXCEPT ![m].updatesSinceLastCompaction = 0]
       /\ task' = [task EXCEPT ![t].pc = IF metas[m].versionDue THEN "c_ver" ELSE "c_exit"]
    /\ UNCHANGED <<phase, live, ndocs, ydoc, metaMap, nmeta, ftimer, dbVars, dirty,
                   cfgVars, bindStateLocks, proc, nextUpd, fails, hist>>

\* documentVersion.create resolved, lastVersionCreatedAt = now, enforceVersionLimit
\* counts the rows (never above the limit within the bounds of the model)
CompactVersionOk(t) ==
    /\ Quiet
    /\ task[t].pc = "c_ver"
    /\ versions' = documentVersionCreate(versions, task[t].d, task[t].snap)
    /\ metas' = [metas EXCEPT ![task[t].m].versionDue = FALSE]
    /\ task' = [task EXCEPT ![t].pc = "c_exit"]
    /\ hist' = [hist EXCEPT !.versioned[task[t].d] = @ \cup {versions.next},
                            !.autoRecent[task[t].d] = @ \cup {versions.next}]
    /\ UNCHANGED <<phase, live, ndocs, ydoc, metaMap, nmeta, ftimer, snapshot, log,
                   sidecar, projState, dirty, cfgVars, bindStateLocks, proc, nextUpd, fails>>

\* documentVersion.create threw: the inner catch logs it
CompactVersionFail(t) ==
    /\ Quiet
    /\ MayFail
    /\ task[t].pc = "c_ver"
    /\ task' = [task EXCEPT ![t].pc = "c_exit"]
    /\ fails' = fails + 1
    /\ UNCHANGED <<phase, live, ndocs, ydoc, metaMap, nmeta, metas, ftimer, dbVars,
                   dirty, cfgVars, bindStateLocks, proc, nextUpd, hist>>

\* the catch block of compactDocument: logPersistenceError, nothing else
CompactCatch(t) ==
    /\ task[t].pc = "c_catch"
    /\ task' = [task EXCEPT ![t].pc = "c_exit"]
    /\ UNCHANGED <<phase, live, ndocs, ydoc, metaMap, nmeta, metas, ftimer, dbVars,
                   dirty, cfgVars, bindStateLocks, proc, nextUpd, fails, hist>>

\* runExclusive of compactDocument ends
CompactExit(t) ==
    /\ task[t].pc = "c_exit"
    /\ Release(t, Return([task[t] EXCEPT !.snap = {}]), task[t].m)
    /\ UNCHANGED <<phase, live, ndocs, ydoc, metaMap, nmeta, ftimer, dbVars, dirty,
                   cfgVars, bindStateLocks, proc, nextUpd, fails, hist>>

\* ---- close ----
\* the last connection closes: the server drops the Y.Doc from its docs map and calls
\* writeState, which awaits saveAndCompact, which awaits flushPendingUpdates
Disconnect(d) ==
    /\ Quiet
    /\ phase[d] = "bound"
    /\ \E t \in TaskIds :
        /\ FreeTask(t)
        /\ EnterFlush(t, [IdleTask EXCEPT !.kind = "close", !.d = d, !.g = live[d],
                                         !.stk = <<"s_force">>],
                      metas)
    /\ phase' = [phase EXCEPT ![d] = "closing"]
    /\ live' = [live EXCEPT ![d] = 0]
    /\ UNCHANGED <<ndocs, ydoc, metaMap, nmeta, ftimer, dbVars, dirty, cfgVars, bindStateLocks, proc,
                   nextUpd, fails, hist>>

\* a caller other than the server (the integration test) calls saveAndCompact(d, doc)
\* for an id the registry does not hold, with a Y.Doc of its own that holds one edit
SaveAndCompactCall(d) ==
    /\ Quiet
    /\ phase[d] = "unbound"
    /\ metaMap[d] = 0
    /\ ndocs < MaxBinds
    /\ nextUpd <= MaxUpdates
    /\ \E t \in TaskIds :
        /\ FreeTask(t)
        /\ EnterFlush(t, [IdleTask EXCEPT !.kind = "call", !.d = d, !.g = ndocs + 1,
                                         !.stk = <<"s_force">>],
                      metas)
    /\ ydoc' = [ydoc EXCEPT ![ndocs + 1] = [NoDoc EXCEPT !.d = d, !.state = {nextUpd}]]
    /\ ndocs' = ndocs + 1
    /\ nextUpd' = nextUpd + 1
    /\ UNCHANGED <<phase, live, metaMap, nmeta, ftimer, dbVars, dirty, cfgVars,
                   bindStateLocks, proc, fails, hist>>

\* a saveAndCompact that does not force the counter
SaveForceKeepsCounter(t) ==
    /\ task[t].pc = "s_force"
    /\ EnterFlush(t, [task[t] EXCEPT !.stk = <<"c_check", "s_close">>], metas)
    /\ UNCHANGED <<phase, live, ndocs, ydoc, metaMap, nmeta, ftimer, dbVars, dirty,
                   cfgVars, bindStateLocks, proc, nextUpd, fails, hist>>

\* saveAndCompact after its flush: look the metadata up, set the counter to 1,
\* await compactDocument (which reads the registry and awaits flushPendingUpdates)
SaveForce(t) ==
    /\ task[t].pc = "s_force"
    /\ LET d == task[t].d
           m == metaMap[d] IN
       IF m # 0
       THEN EnterFlush(t, [task[t] EXCEPT !.stk = <<"c_check", "s_close">>],
                       [metas EXCEPT ![m].updatesSinceLastCompaction = 1])
       ELSE EnterFlush(t, [task[t] EXCEPT !.stk = <<"c_check">>], metas)
    /\ UNCHANGED <<phase, live, ndocs, ydoc, metaMap, nmeta, ftimer, dbVars, dirty,
                   cfgVars, bindStateLocks, proc, nextUpd, fails, hist>>

\* a saveAndCompact that returns without running the close projections
SaveCloseSkipsProjections(t) ==
    /\ task[t].pc = "s_close"
    /\ task' = [task EXCEPT ![t].pc = "w_stop"]
    /\ UNCHANGED <<phase, live, ndocs, ydoc, metaMap, nmeta, metas, ftimer, dbVars,
                   dirty, cfgVars, bindStateLocks, proc, nextUpd, fails, hist>>

\* saveAndCompact after compactDocument: meta.mutex.runExclusive for the close projections
SaveClose(t) ==
    /\ task[t].pc = "s_close"
    /\ Acquire(t, task[t], metas, task[t].m, "s_crit", "s_wait")
    /\ UNCHANGED <<phase, live, ndocs, ydoc, metaMap, nmeta, ftimer, dbVars, dirty,
                   cfgVars, bindStateLocks, proc, nextUpd, fails, hist>>

\* inside the mutex: runProjectionsInternal(docId, doc, "close")
SaveCrit(t) ==
    /\ task[t].pc = "s_crit"
    /\ task' = [task EXCEPT ![t].pc = "p_begin", ![t].trig = "close",
                            ![t].stk = <<"s_exit">> \o @]
    /\ UNCHANGED <<phase, live, ndocs, ydoc, metaMap, nmeta, metas, ftimer, dbVars,
                   dirty, cfgVars, bindStateLocks, proc, nextUpd, fails, hist>>

\* runExclusive of saveAndCompact ends; saveAndCompact resolves
SaveExit(t) ==
    /\ task[t].pc = "s_exit"
    /\ Release(t, [task[t] EXCEPT !.pc = "w_stop"], task[t].m)
    /\ UNCHANGED <<phase, live, ndocs, ydoc, metaMap, nmeta, ftimer, dbVars, dirty,
                   cfgVars, bindStateLocks, proc, nextUpd, fails, hist>>

\* writeState after saveAndCompact: stopCompactionTimer; the server destroys the Y.Doc
WriteStateStop(t) ==
    /\ task[t].pc = "w_stop"
    /\ SetMem(stopCompactionTimer(Mem, task[t].d))
    /\ task' = [task EXCEPT ![t] = IdleTask]
    /\ phase' = [phase EXCEPT ![task[t].d] = "unbound"]
    /\ ydoc' = [ydoc EXCEPT ![task[t].g].listener = "none", ![task[t].g].observer = FALSE]
    /\ UNCHANGED <<live, ndocs, dbVars, cfgVars, bindStateLocks, proc, nextUpd, fails, hist>>

\* ---- shutdown ----
\* the entries of documentMetadataMap in iteration (insertion) order whose metadata
\* tracks a Y.Doc
RegisteredDocs(ms) == {d \in Docs : metaMap[d] # 0 /\ ms[metaMap[d]].yjsDocument # 0}

IdleTasks(T) == {t \in TaskIds : T[t].kind = "idle"}

RECURSIVE StartFlushes(_, _, _)
\* the first loop of shutdown: flushPendingUpdates(docId, meta.yjsDocument) is called
\* for one entry after the other, each call running up to its mutex acquisition
StartFlushes(ds, T, ms) ==
    IF ds = {} THEN [task |-> T, metas |-> ms]
    ELSE LET d == CHOOSE x \in ds : \A y \in ds : metaMap[x] <= metaMap[y]
             m == metaMap[d]
             t == CHOOSE x \in IdleTasks(T) : \A y \in IdleTasks(T) : x <= y
             rec == [IdleTask EXCEPT !.kind = "shutdown", !.d = d, !.m = m,
                                     !.g = ms[m].yjsDocument]
         IN  IF ms[m].owner = 0
             THEN StartFlushes(ds \ {d}, [T EXCEPT ![t] = [rec EXCEPT !.pc = "f_crit"]],
                               [ms EXCEPT ![m].owner = t])
             ELSE StartFlushes(ds \ {d}, [T EXCEPT ![t] = [rec EXCEPT !.pc = "f_wait"]],
                               [ms EXCEPT ![m].queue = Append(@, t)])

\* the activation is inside flushPendingUpdates: waiting for the mutex, in the
\* critical section, or in the flush-triggered projections
InFlush(rec) ==
    \/ rec.pc \in {"f_wait", "f_crit", "f_write", "f_written", "f_catch", "f_exit"}
    \/ (rec.pc \in {"p_begin", "p_apply", "p_state"} /\ Head(rec.stk) = "f_exit")

\* what the pending buffers of the registered documents hold
Buffered(ds) == {<<d, u>> \in ds \X Updates : u \in MergeSeq(metas[metaMap[d]].pendingUpdates)}

\* server.ts SIGINT handler: persistence.shutdown() is called and runs up to its
\* await Promise.all(flushPromises)
SigInt ==
    /\ Quiet
    /\ proc = "up"
    /\ LET ds == RegisteredDocs(metas)
           r == StartFlushes(ds, task, metas)
       IN  /\ Cardinality(ds) <= Cardinality(IdleTasks(task))
           /\ task' = [t \in TaskIds |->
                         IF task[t].kind = "idle" THEN r.task[t]
                         ELSE [task[t] EXCEPT !.early = InFlush(task[t])]]
           /\ metas' = r.metas
           /\ hist' = [hist EXCEPT !.atShutdown = Buffered(ds),
                                   !.before = {<<ydoc[p[1]].d, p[2]>> :
                                                 p \in {q \in hist.captured :
                                                          /\ live[ydoc[q[1]].d] = q[1]
                                                          /\ ydoc[q[1]].d \in ds
                                                          /\ phase[ydoc[q[1]].d] = "bound"}}]
    /\ proc' = "draining"
    /\ UNCHANGED <<phase, live, ndocs, ydoc, metaMap, nmeta, ftimer, dbVars, dirty,
                   cfgVars, bindStateLocks, nextUpd, fails>>

\* a shutdown that stops the timers and releases the store without awaiting the flushes
ShutdownStopsEarly ==
    /\ Quiet
    /\ proc = "draining"
    /\ metas' = [m \in MetaIds |->
                   IF \E d \in Docs : metaMap[d] = m
                   THEN [metas[m] EXCEPT !.compactionTimer = 0, !.flushTimer = 0]
                   ELSE metas[m]]
    /\ ftimer' = [i \in TimerIds |->
                    IF ftimer[i].armed /\ (\E d \in Docs : metaMap[d] = ftimer[i].m
                                                /\ metas[ftimer[i].m].flushTimer = i)
                    THEN NoTimer ELSE ftimer[i]]
    /\ proc' = "stopping"
    /\ UNCHANGED <<phase, live, ndocs, ydoc, metaMap, nmeta, task, dbVars, dirty,
                   cfgVars, bindStateLocks, nextUpd, fails, hist>>

\* shutdown after Promise.all: clearInterval and clearTimeout for every entry of the
\* registry (a cleared handle is inert; the model writes it as 0), then
\* prisma.$disconnect() is issued
ShutdownDrained ==
    /\ DrainDone
    /\ metas' = [m \in MetaIds |->
                   IF \E d \in Docs : metaMap[d] = m
                   THEN [metas[m] EXCEPT !.compactionTimer = 0, !.flushTimer = 0]
                   ELSE metas[m]]
    /\ ftimer' = [i \in TimerIds |->
                    IF ftimer[i].armed /\ (\E d \in Docs : metaMap[d] = ftimer[i].m
                                                /\ metas[ftimer[i].m].flushTimer = i)
                    THEN NoTimer ELSE ftimer[i]]
    /\ proc' = "stopping"
    /\ UNCHANGED <<phase, live, ndocs, ydoc, metaMap, nmeta, task, dbVars, dirty,
                   cfgVars, bindStateLocks, nextUpd, fails, hist>>

\* prisma.$disconnect() resolved: process.exit(0); what is in memory or in flight is gone
ProcessExit ==
    /\ Quiet
    /\ proc = "stopping"
    /\ proc' = "exited"
    /\ task' = [t \in TaskIds |-> IdleTask]
    /\ ftimer' = [i \in TimerIds |-> NoTimer]
    /\ metas' = [m \in MetaIds |->
                   [metas[m] EXCEPT !.compactionTimer = 0, !.flushTimer = 0,
                                    !.owner = 0, !.queue = <<>>]]
    /\ phase' = [d \in Docs |-> "exited"]
    /\ live' = [d \in Docs |-> 0]
    /\ bindStateLocks' = [d \in Docs |-> 0]
    /\ UNCHANGED <<ndocs, ydoc, metaMap, nmeta, dbVars, dirty, cfgVars, nextUpd,
                   fails, hist>>


\* ---- version snapshots (app/actions/versions.ts) ----
\* version rows created beyond the retention limit in a run of the model
MaxPruned == 2

\* createVersion(documentId, snapshot, label) is called: document.findUnique is issued
CreateVersion(d) ==
    /\ Quiet
    /\ proc = "up"
    /\ versions.next + Cardinality({s \in TaskIds : task[s].pc \in {"v_doc", "v_create"}})
          <= MAX_VERSIONS + MaxPruned
    /\ d # "d1" => (hist.versioned[d] = {} /\ \A s \in TaskIds : task[s].kind # "version")
    /\ \E t \in TaskIds :
        /\ FreeTask(t)
        /\ task' = [task EXCEPT ![t] =
                      [IdleTask EXCEPT !.kind = "version", !.pc = "v_doc", !.d = d]]
    /\ UNCHANGED <<phase, live, ndocs, ydoc, metaMap, nmeta, metas, ftimer, dbVars,
                   dirty, cfgVars, bindStateLocks, proc, nextUpd, fails, hist>>

\* document.findUnique resolved with the document row: documentVersion.create is issued
VersionDocFound(t) ==
    /\ Quiet
    /\ task[t].pc = "v_doc"
    /\ task' = [task EXCEPT ![t].pc = "v_create"]
    /\ UNCHANGED <<phase, live, ndocs, ydoc, metaMap, nmeta, metas, ftimer, dbVars,
                   dirty, cfgVars, bindStateLocks, proc, nextUpd, fails, hist>>

\* documentVersion.create resolved: enforceVersionLimit issues documentVersion.count
VersionCreated(t) ==
    /\ Quiet
    /\ task[t].pc = "v_create"
    /\ versions' = documentVersionCreate(versions, task[t].d, {})
    /\ task' = [task EXCEPT ![t].pc = "e_count"]
    /\ hist' = [hist EXCEPT !.versioned[task[t].d] = @ \cup {versions.next}]
    /\ UNCHANGED <<phase, live, ndocs, ydoc, metaMap, nmeta, metas, ftimer, snapshot,
                   log, sidecar, projState, dirty, cfgVars, bindStateLocks, proc, nextUpd, fails>>

\* documentVersion.count resolved: return when within the limit, else findMany
\* (oldest first, take count - MAX_VERSIONS) is issued
VersionCounted(t) ==
    /\ Quiet
    /\ task[t].pc = "e_count"
    /\ LET count == Cardinality(VersionsOf(versions, task[t].d)) IN
       IF count <= MAX_VERSIONS
       THEN task' = [task EXCEPT ![t] = IdleTask]
       ELSE task' = [task EXCEPT ![t].pc = "e_find", ![t].n = count]
    /\ UNCHANGED <<phase, live, ndocs, ydoc, metaMap, nmeta, metas, ftimer, dbVars,
                   dirty, cfgVars, bindStateLocks, proc, nextUpd, fails, hist>>

\* documentVersion.findMany resolved: deleteMany of the ids found is issued
VersionFound(t) ==
    /\ Quiet
    /\ task[t].pc = "e_find"
    /\ task' = [task EXCEPT ![t].pc = "e_delete",
                            ![t].ids = OldestIds(versions, task[t].d,
                                                 task[t].n - MAX_VERSIONS)]
    /\ UNCHANGED <<phase, live, ndocs, ydoc, metaMap, nmeta, metas, ftimer, dbVars,
                   dirty, cfgVars, bindStateLocks, proc, nextUpd, fails, hist>>

\* documentVersion.deleteMany resolved: createVersion returns the new id
VersionPruned(t) ==
    /\ Quiet
    /\ task[t].pc = "e_delete"
    /\ versions' = documentVersionDeleteMany(versions, task[t].ids)
    /\ task' = [task EXCEPT ![t] = IdleTask]
    /\ UNCHANGED <<phase, live, ndocs, ydoc, metaMap, nmeta, metas, ftimer, snapshot,
                   log, sidecar, projState, dirty, cfgVars, bindStateLocks, proc, nextUpd, fails, hist>>


\* ---- revert (app/api/documents/[id]/versions/[versionId]/revert/route.ts) ----
\* the origin the revert route passes to currentDoc.transact, and one that the
\* update listeners ignore
RevertOriginPersistence == "persistence"
RevertOrigin == "revert"

\* prisma.documentVersion.findUnique({where: {id}}): the rows with that id
VersionRow(V, id) == {r \in V.rows : r.id = id}

\* currentDoc.transact(<clear the shared types, repopulate them from the version>, origin)
\* on Y.Doc g: one synchronous transaction, which emits one update unless it changed
\* nothing (both the document and the version are empty); resp is the response
\* status recorded with the step
Transact(g, snap, origin, resp) ==
    IF CiaOf(ydoc[g].state) = NoCia /\ CiaOf(snap) = NoCia
    THEN /\ hist' = [hist EXCEPT !.response = resp]
         /\ UNCHANGED <<ydoc, metas, metaMap, nmeta, ftimer, dirty, content, nextUpd>>
    ELSE LET S == Notify(Mem, g, {nextUpd}, origin) IN
         /\ FreeTimers(ftimer) # {}
         /\ ydoc' = [ydoc EXCEPT ![g].state = @ \cup {nextUpd}]
         /\ SetMem(S)
         /\ content' = [content EXCEPT ![nextUpd] = CiaOf(snap)]
         /\ nextUpd' = nextUpd + 1
         /\ hist' = [hist EXCEPT !.captured =
                        IF Captured(S) THEN @ \cup {<<g, nextUpd>>} ELSE @,
                                 !.response = resp,
                                 !.reverted = @ \cup {nextUpd}]

\* POST .../documents/d/versions/v/revert arrives: getVersion issues findUnique
RevertRequest(d, v) ==
    /\ Quiet
    /\ proc = "up"
    /\ (IF nextUpd > MaxUpdates THEN nextUpd ELSE MaxUpdates + 1)
          + Cardinality({s \in TaskIds : task[s].kind = "revert"})
          <= MaxUpdates + MaxReverts
    /\ \E t \in TaskIds :
        /\ FreeTask(t)
        /\ task' = [task EXCEPT ![t] =
                      [IdleTask EXCEPT !.kind = "revert", !.pc = "r_get", !.d = d, !.n = v]]
    /\ UNCHANGED <<phase, live, ndocs, ydoc, metaMap, nmeta, metas, ftimer, dbVars,
                   dirty, cfgVars, bindStateLocks, proc, nextUpd, fails, hist>>

\* a route that does not compare the version's documentId with the target document
RevertGetOkAnyDocument(t) ==
    /\ Quiet
    /\ task[t].pc = "r_get"
    /\ LET found == VersionRow(versions, task[t].n) IN
       IF found = {}
       THEN /\ task' = [task EXCEPT ![t] = IdleTask]
            /\ hist' = [hist EXCEPT !.response = 404]
       ELSE /\ task' = [task EXCEPT ![t].pc = "r_docs",
                                    ![t].snap = (CHOOSE r \in found : TRUE).snap]
            /\ hist' = hist
    /\ UNCHANGED <<phase, live, ndocs, ydoc, metaMap, nmeta, metas, ftimer, dbVars,
                   dirty, cfgVars, bindStateLocks, proc, nextUpd, fails>>

\* findUnique resolved: no such version is a 404, a version of another document a 403,
\* both returned at once; else the route awaits the import of the docs map
RevertGetOk(t) ==
    /\ Quiet
    /\ task[t].pc = "r_get"
    /\ LET found == VersionRow(versions, task[t].n) IN
       IF found = {}
       THEN /\ task' = [task EXCEPT ![t] = IdleTask]
            /\ hist' = [hist EXCEPT !.response = 404]
       ELSE LET version == CHOOSE r \in found : TRUE IN
            IF version.d # task[t].d
            THEN /\ task' = [task EXCEPT ![t] = IdleTask]
                 /\ hist' = [hist EXCEPT !.response = 403]
            ELSE /\ task' = [task EXCEPT ![t].pc = "r_docs", ![t].snap = version.snap]
                 /\ hist' = hist
    /\ UNCHANGED <<phase, live, ndocs, ydoc, metaMap, nmeta, metas, ftimer, dbVars,
                   dirty, cfgVars, bindStateLocks, proc, nextUpd, fails>>

\* findUnique threw: getVersion logs it and returns undefined, the route answers 404
RevertGetFail(t) ==
    /\ Quiet
    /\ MayFail
    /\ task[t].pc = "r_get"
    /\ task' = [task EXCEPT ![t] = IdleTask]
    /\ hist' = [hist EXCEPT !.response = 404]
    /\ fails' = fails + 1
    /\ UNCHANGED <<phase, live, ndocs, ydoc, metaMap, nmeta, metas, ftimer, dbVars,
                   dirty, cfgVars, bindStateLocks, proc, nextUpd>>

\* docs.get(documentId): a document that is not in memory is a 404. The handler
\* without the mutex runs the transaction and answers; the handler with the mutex
\* calls getOrCreateMeta(documentId, currentDoc) and awaits meta.mutex.runExclusive
RevertDocs(t) ==
    /\ Quiet
    /\ task[t].pc = "r_docs"
    /\ LET d == task[t].d
           g == live[d] IN
       IF g = 0
       THEN /\ task' = [task EXCEPT ![t] = IdleTask]
            /\ hist' = [hist EXCEPT !.response = 404]
            /\ UNCHANGED <<ydoc, metas, metaMap, nmeta, ftimer, dirty, content, nextUpd>>
       ELSE IF revertRoute = "nomutex"
       THEN /\ Transact(g, task[t].snap, RevertOrigin, 200)
            /\ task' = [task EXCEPT ![t] = IdleTask]
       ELSE LET S == getOrCreateMeta(Mem, d, g)
                m == MetaId(Mem, d) IN
            /\ Acquire(t, [task[t] EXCEPT !.g = g, !.m = m], S.metas, m, "r_crit", "r_wait")
            /\ metaMap' = S.metaMap
            /\ nmeta' = S.nmeta
            /\ UNCHANGED <<ydoc, ftimer, dirty, content, nextUpd, hist>>
    /\ UNCHANGED <<phase, live, ndocs, dbVars, wiring, revertRoute, served,
                   bindStateLocks, proc, fails>>

\* inside the mutex: the temporary document is built and the transaction runs
RevertCrit(t) ==
    /\ task[t].pc = "r_crit"
    /\ Transact(task[t].g, task[t].snap, RevertOrigin, hist.response)
    /\ task' = [task EXCEPT ![t].pc = "r_exit"]
    /\ UNCHANGED <<phase, live, ndocs, dbVars, wiring, revertRoute, served,
                   bindStateLocks, proc, fails>>

\* runExclusive ends; the route answers success
RevertExit(t) ==
    /\ task[t].pc = "r_exit"
    /\ Release(t, IdleTask, task[t].m)
    /\ hist' = [hist EXCEPT !.response = 200]
    /\ UNCHANGED <<phase, live, ndocs, ydoc, metaMap, nmeta, ftimer, dbVars, dirty,
                   cfgVars, bindStateLocks, proc, nextUpd, fails>>


\* ---- explicit save (app/api/documents/[documentId]/save/route.ts, forceFlush) ----
\* the updates in the pending buffer of the registered metadata of d
\* (a save or forceFlush task keeps in `ids` what was pending when it was called)
PendingNow(d) ==
    IF metaMap[d] = 0 THEN {} ELSE MergeSeq(metas[metaMap[d]].pendingUpdates)

\* POST /api/documents/d/save arrives for an open document: document.findUnique is issued
SaveRequest(d) ==
    /\ Quiet
    /\ proc = "up"
    /\ phase[d] = "bound"
    /\ \E t \in TaskIds :
        /\ FreeTask(t)
        /\ task' = [task EXCEPT ![t] =
                      [IdleTask EXCEPT !.kind = "save", !.pc = "sv_find", !.d = d,
                                       !.ids = PendingNow(d)]]
    /\ UNCHANGED <<phase, live, ndocs, ydoc, metaMap, nmeta, metas, ftimer, dbVars,
                   dirty, cfgVars, bindStateLocks, proc, nextUpd, fails, hist>>

\* findUnique resolved with the row of the document: document.update is issued
SaveFound(t) ==
    /\ Quiet
    /\ task[t].pc = "sv_find"
    /\ task' = [task EXCEPT ![t].pc = "sv_update"]
    /\ UNCHANGED <<phase, live, ndocs, ydoc, metaMap, nmeta, metas, ftimer, dbVars,
                   dirty, cfgVars, bindStateLocks, proc, nextUpd, fails, hist>>

\* document.update({data: {}}) resolved: no column changes, the route answers success
SaveUpdated(t) ==
    /\ Quiet
    /\ task[t].pc = "sv_update"
    /\ task' = [task EXCEPT ![t] = IdleTask]
    /\ hist' = [hist EXCEPT !.response = 200]
    /\ UNCHANGED <<phase, live, ndocs, ydoc, metaMap, nmeta, metas, ftimer, dbVars,
                   dirty, cfgVars, bindStateLocks, proc, nextUpd, fails>>

\* findUnique or update threw: the route's catch answers 500
SaveFail(t) ==
    /\ Quiet
    /\ MayFail
    /\ task[t].pc \in {"sv_find", "sv_update"}
    /\ task' = [task EXCEPT ![t] = IdleTask]
    /\ hist' = [hist EXCEPT !.response = 500]
    /\ fails' = fails + 1
    /\ UNCHANGED <<phase, live, ndocs, ydoc, metaMap, nmeta, metas, ftimer, dbVars,
                   dirty, cfgVars, bindStateLocks, proc, nextUpd>>

\* persistence.ts forceFlush(docId, doc) is called for an open document:
\* await flushPendingUpdates
ForceFlush(d) ==
    /\ Quiet
    /\ proc = "up"
    /\ phase[d] = "bound"
    /\ \E t \in TaskIds :
        /\ FreeTask(t)
        /\ EnterFlush(t, [IdleTask EXCEPT !.kind = "force", !.d = d, !.g = live[d],
                                         !.stk = <<"ff_compact">>,
                                         !.ids = PendingNow(d)],
                      metas)
    /\ UNCHANGED <<phase, live, ndocs, ydoc, metaMap, nmeta, ftimer, dbVars, dirty,
                   cfgVars, bindStateLocks, proc, nextUpd, fails, hist>>

\* forceFlush after its flush: await compactDocument (which reads the registry and
\* awaits flushPendingUpdates)
ForceCompact(t) ==
    /\ task[t].pc = "ff_compact"
    /\ EnterFlush(t, [task[t] EXCEPT !.stk = <<"c_check", "ff_done">>], metas)
    /\ UNCHANGED <<phase, live, ndocs, ydoc, metaMap, nmeta, ftimer, dbVars, dirty,
                   cfgVars, bindStateLocks, proc, nextUpd, fails, hist>>

\* compactDocument resolved: forceFlush resolves
ForceDone(t) ==
    /\ task[t].pc = "ff_done"
    /\ task' = [task EXCEPT ![t] = IdleTask]
    /\ UNCHANGED <<phase, live, ndocs, ydoc, metaMap, nmeta, metas, ftimer, dbVars,
                   dirty, cfgVars, bindStateLocks, proc, nextUpd, fails, hist>>


\* ---- the program ----
Next ==
    \/ \E d \in Docs : Connect(d)
    \/ \E t \in TaskIds : LoadSnapOk(t)
    \/ \E t \in TaskIds : LoadSnapFail(t)
    \/ \E t \in TaskIds : LoadRowsOk(t)
    \/ \E t \in TaskIds : LoadRowsFail(t)
    \/ \E d \in Docs : Mutate(d)
    \/ Tick
    \/ \E i \in TimerIds : TimerFire(i)
    \/ \E t \in TaskIds : FlushCrit(t)
    \/ \E t \in TaskIds : FlushWriteOk(t)
    \/ \E t \in TaskIds : FlushWriteFail(t)
    \/ \E t \in TaskIds : FlushWritten(t)
    \/ \E t \in TaskIds : FlushCatch(t)
    \/ \E t \in TaskIds : FlushExit(t)
    \/ \E t \in TaskIds : ProjBegin(t)
    \/ \E t \in TaskIds : ProjApplyOk(t)
    \/ \E t \in TaskIds : ProjApplyFail(t)
    \/ \E t \in TaskIds : ProjStateOk(t)
    \/ \E t \in TaskIds : ProjStateFail(t)
    \/ \E m \in MetaIds : CompactionTick(m)
    \/ \E t \in TaskIds : CompactCheck(t)
    \/ \E t \in TaskIds : CompactCrit(t)
    \/ \E t \in TaskIds : CompactTxnOk(t)
    \/ \E t \in TaskIds : CompactTxnFail(t)
    \/ \E t \in TaskIds : CompactAfter(t)
    \/ \E t \in TaskIds : CompactVersionOk(t)
    \/ \E t \in TaskIds : CompactVersionFail(t)
    \/ \E t \in TaskIds : CompactCatch(t)
    \/ \E t \in TaskIds : CompactExit(t)
    \/ \E d \in Docs : Disconnect(d)
    \/ \E t \in TaskIds : SaveForce(t)
    \/ \E t \in TaskIds : SaveClose(t)
    \/ \E t \in TaskIds : SaveCrit(t)
    \/ \E t \in TaskIds : SaveExit(t)
    \/ \E t \in TaskIds : WriteStateStop(t)

Spec == Init /\ [][Next]_vars

\* the event loop keeps running whatever is runnable: timers (the compaction interval
\* among them) keep firing and issued storage operations complete
LiveSpec == Spec /\ WF_vars(Next)

\* the program with bindState called more than once for a document
BindNext ==
    \/ Next
    \/ \E d \in Docs : BindAgain(d)
    \/ \E t \in TaskIds : BindRecheck(t)

BindSpec == Init /\ [][BindNext]_vars


\* the deployment of server.ts with its SIGINT handler, two documents being opened
ShutInit ==
    /\ phase = [d \in Docs |-> "unbound"]
    /\ live = [d \in Docs |-> 0]
    /\ ndocs = 0
    /\ ydoc = [g \in DocInsts |-> NoDoc]
    /\ metaMap = [d \in Docs |-> 0]
    /\ nmeta = 0
    /\ metas = [m \in MetaIds |-> NoMeta]
    /\ ftimer = [i \in TimerIds |-> NoTimer]
    /\ task = [t \in TaskIds |-> IdleTask]
    /\ snapshot = [d \in Docs |-> [has |-> FALSE, bytes |-> {}]]
    /\ log = [d \in Docs |-> <<>>]
    /\ versions = NoVersions
    /\ sidecar = [d \in Docs |-> <<0, 0, 0>>]
    /\ projState = [d \in Docs |-> "norow"]
    /\ dirty = [d \in Docs |-> FALSE]
    /\ revertRoute = "mutex"
    /\ bindStateLocks = [d \in Docs |-> 0]
    /\ wiring = "server"
    /\ served = Docs
    /\ content = [u \in AllUpdates |-> DefaultEdit(u)]
    /\ proc = "up"
    /\ nextUpd = 1
    /\ fails = 0
    /\ hist = NoHist

\* the clients stay connected until the process is told to stop
ShutNext ==
    \/ \E d \in Docs : Connect(d)
    \/ \E t \in TaskIds : LoadSnapOk(t)
    \/ \E t \in TaskIds : LoadSnapFail(t)
    \/ \E t \in TaskIds : LoadRowsOk(t)
    \/ \E t \in TaskIds : LoadRowsFail(t)
    \/ \E d \in Docs : Mutate(d)
    \/ Tick
    \/ \E i \in TimerIds : TimerFire(i)
    \/ \E t \in TaskIds : FlushCrit(t)
    \/ \E t \in TaskIds : FlushWriteOk(t)
    \/ \E t \in TaskIds : FlushWriteFail(t)
    \/ \E t \in TaskIds : FlushWritten(t)
    \/ \E t \in TaskIds : FlushCatch(t)
    \/ \E t \in TaskIds : FlushExit(t)
    \/ \E t \in TaskIds : ProjBegin(t)
    \/ \E t \in TaskIds : ProjApplyOk(t)
    \/ \E t \in TaskIds : ProjApplyFail(t)
    \/ \E t \in TaskIds : ProjStateOk(t)
    \/ \E t \in TaskIds : ProjStateFail(t)
    \/ \E m \in MetaIds : CompactionTick(m)
    \/ \E t \in TaskIds : CompactCheck(t)
    \/ \E t \in TaskIds : CompactCrit(t)
    \/ \E t \in TaskIds : CompactTxnOk(t)
    \/ \E t \in TaskIds : CompactTxnFail(t)
    \/ \E t \in TaskIds : CompactAfter(t)
    \/ \E t \in TaskIds : CompactVersionOk(t)
    \/ \E t \in TaskIds : CompactVersionFail(t)
    \/ \E t \in TaskIds : CompactCatch(t)
    \/ \E t \in TaskIds : CompactExit(t)
    \/ SigInt
    \/ ShutdownDrained
    \/ ProcessExit

ShutdownSpec == ShutInit /\ [][ShutNext]_vars


\* one document is opened and stays open, storage works, and the first edit writes
\* any three values into the cia map
ProjInit ==
    /\ phase = [d \in Docs |-> "unbound"]
    /\ live = [d \in Docs |-> 0]
    /\ ndocs = 0
    /\ ydoc = [g \in DocInsts |-> NoDoc]
    /\ metaMap = [d \in Docs |-> 0]
    /\ nmeta = 0
    /\ metas = [m \in MetaIds |-> NoMeta]
    /\ ftimer = [i \in TimerIds |-> NoTimer]
    /\ task = [t \in TaskIds |-> IdleTask]
    /\ snapshot = [d \in Docs |-> [has |-> FALSE, bytes |-> {}]]
    /\ log = [d \in Docs |-> <<>>]
    /\ versions = NoVersions
    /\ sidecar = [d \in Docs |-> <<0, 0, 0>>]
    /\ projState = [d \in Docs |-> "norow"]
    /\ dirty = [d \in Docs |-> FALSE]
    /\ revertRoute = "mutex"
    /\ bindStateLocks = [d \in Docs |-> 0]
    /\ wiring \in {"server", "attach"}
    /\ served = {"d1"}
    /\ \E e \in CiaMaps :
          content = [u \in AllUpdates |-> IF u = 1 THEN e ELSE DefaultEdit(u)]
    /\ proc = "up"
    /\ nextUpd = 1
    /\ fails = 0
    /\ hist = NoHist

ProjNext ==
    \/ \E d \in Docs : Connect(d)
    \/ \E t \in TaskIds : LoadSnapOk(t)
    \/ \E t \in TaskIds : LoadRowsOk(t)
    \/ \E d \in Docs : Mutate(d)
    \/ Tick
    \/ \E i \in TimerIds : TimerFire(i)
    \/ \E t \in TaskIds : FlushCrit(t)
    \/ \E t \in TaskIds : FlushWriteOk(t)
    \/ \E t \in TaskIds : FlushWritten(t)
    \/ \E t \in TaskIds : FlushExit(t)
    \/ \E t \in TaskIds : ProjBegin(t)
    \/ \E t \in TaskIds : ProjApplyOk(t)
    \/ \E t \in TaskIds : ProjStateOk(t)
    \/ \E m \in MetaIds : CompactionTick(m)
    \/ \E t \in TaskIds : CompactCheck(t)
    \/ \E t \in TaskIds : CompactCrit(t)
    \/ \E t \in TaskIds : CompactTxnOk(t)
    \/ \E t \in TaskIds : CompactAfter(t)
    \/ \E t \in TaskIds : CompactVersionOk(t)
    \/ \E t \in TaskIds : CompactExit(t)

ProjSpec == ProjInit /\ [][ProjNext]_vars


\* the version actions alone: callers create version snapshots of two documents
VersionInit ==
    /\ phase = [d \in Docs |-> "unbound"]
    /\ live = [d \in Docs |-> 0]
    /\ ndocs = 0
    /\ ydoc = [g \in DocInsts |-> NoDoc]
    /\ metaMap = [d \in Docs |-> 0]
    /\ nmeta = 0
    /\ metas = [m \in MetaIds |-> NoMeta]
    /\ ftimer = [i \in TimerIds |-> NoTimer]
    /\ task = [t \in TaskIds |-> IdleTask]
    /\ snapshot = [d \in Docs |-> [has |-> FALSE, bytes |-> {}]]
    /\ log = [d \in Docs |-> <<>>]
    /\ versions = NoVersions
    /\ sidecar = [d \in Docs |-> <<0, 0, 0>>]
    /\ projState = [d \in Docs |-> "norow"]
    /\ dirty = [d \in Docs |-> FALSE]
    /\ revertRoute = "mutex"
    /\ bindStateLocks = [d \in Docs |-> 0]
    /\ wiring = "server"
    /\ served = {"d1"}
    /\ content = [u \in AllUpdates |-> DefaultEdit(u)]
    /\ proc = "up"
    /\ nextUpd = 1
    /\ fails = 0
    /\ hist = NoHist

VersionNext ==
    \/ \E d \in Docs : CreateVersion(d)
    \/ \E t \in TaskIds : VersionDocFound(t)
    \/ \E t \in TaskIds : VersionCreated(t)
    \/ \E t \in TaskIds : VersionCounted(t)
    \/ \E t \in TaskIds : VersionFound(t)
    \/ \E t \in TaskIds : VersionPruned(t)

VersionSpec == VersionInit /\ [][VersionNext]_vars


\* the deployment with the revert route, either of its two handlers built: one
\* document is opened and stays open, and storage fails only under getVersion
RevertInit ==
    /\ phase = [d \in Docs |-> "unbound"]
    /\ live = [d \in Docs |-> 0]
    /\ ndocs = 0
    /\ ydoc = [g \in DocInsts |-> NoDoc]
    /\ metaMap = [d \in Docs |-> 0]
    /\ nmeta = 0
    /\ metas = [m \in MetaIds |-> NoMeta]
    /\ ftimer = [i \in TimerIds |-> NoTimer]
    /\ task = [t \in TaskIds |-> IdleTask]
    /\ snapshot = [d \in Docs |-> [has |-> FALSE, bytes |-> {}]]
    /\ log = [d \in Docs |-> <<>>]
    /\ versions = NoVersions
    /\ sidecar = [d \in Docs |-> <<0, 0, 0>>]
    /\ projState = [d \in Docs |-> "norow"]
    /\ dirty = [d \in Docs |-> FALSE]
    /\ revertRoute \in {"mutex", "nomutex"}
    /\ bindStateLocks = [d \in Docs |-> 0]
    /\ wiring \in {"server", "attach"}
    /\ served = {"d1"}
    /\ content = [u \in AllUpdates |-> DefaultEdit(u)]
    /\ proc = "up"
    /\ nextUpd = 1
    /\ fails = 0
    /\ hist = NoHist

RevertNext ==
    \/ \E d \in Docs : Connect(d)
    \/ \E t \in TaskIds : LoadSnapOk(t)
    \/ \E t \in TaskIds : LoadRowsOk(t)
    \/ \E d \in Docs : Mutate(d)
    \/ Tick
    \/ \E i \in TimerIds : TimerFire(i)
    \/ \E t \in TaskIds : FlushCrit(t)
    \/ \E t \in TaskIds : FlushWriteOk(t)
    \/ \E t \in TaskIds : FlushWritten(t)
    \/ \E t \in TaskIds : FlushExit(t)
    \/ \E t \in TaskIds : ProjBegin(t)
    \/ \E t \in TaskIds : ProjApplyOk(t)
    \/ \E t \in TaskIds : ProjStateOk(t)
    \/ \E m \in MetaIds : CompactionTick(m)
    \/ \E t \in TaskIds : CompactCheck(t)
    \/ \E t \in TaskIds : CompactCrit(t)
    \/ \E t \in TaskIds : CompactTxnOk(t)
    \/ \E t \in TaskIds : CompactAfter(t)
    \/ \E t \in TaskIds : CompactVersionOk(t)
    \/ \E t \in TaskIds : CompactExit(t)
    \/ \E d \in Docs, v \in 1..MaxVersionId : RevertRequest(d, v)
    \/ \E t \in TaskIds : RevertGetOk(t)
    \/ \E t \in TaskIds : RevertGetFail(t)
    \/ \E t \in TaskIds : RevertDocs(t)
    \/ \E t \in TaskIds : RevertCrit(t)
    \/ \E t \in TaskIds : RevertExit(t)

RevertSpec == RevertInit /\ [][RevertNext]_vars

\* what the persistence engine does by itself: timers, completions of storage
\* operations and the continuations they resume
RevertProgress ==
    \/ \E t \in TaskIds : LoadSnapOk(t)
    \/ \E t \in TaskIds : LoadRowsOk(t)
    \/ Tick
    \/ \E i \in TimerIds : TimerFire(i)
    \/ \E t \in TaskIds : FlushCrit(t)
    \/ \E t \in TaskIds : FlushWriteOk(t)
    \/ \E t \in TaskIds : FlushWritten(t)
    \/ \E t \in TaskIds : FlushExit(t)
    \/ \E t \in TaskIds : ProjBegin(t)
    \/ \E t \in TaskIds : ProjApplyOk(t)
    \/ \E t \in TaskIds : ProjStateOk(t)
    \/ \E m \in MetaIds : CompactionTick(m)
    \/ \E t \in TaskIds : CompactCheck(t)
    \/ \E t \in TaskIds : CompactCrit(t)
    \/ \E t \in TaskIds : CompactTxnOk(t)
    \/ \E t \in TaskIds : CompactAfter(t)
    \/ \E t \in TaskIds : CompactVersionOk(t)
    \/ \E t \in TaskIds : CompactExit(t)

\* what the revert route does once a request is in: its awaits complete
RevertAnswers ==
    \/ \E t \in TaskIds : RevertGetOk(t)
    \/ \E t \in TaskIds : RevertDocs(t)
    \/ \E t \in TaskIds : RevertCrit(t)
    \/ \E t \in TaskIds : RevertExit(t)

\* the event loop keeps running whatever is runnable, however many requests arrive
RevertLiveSpec == RevertSpec /\ WF_vars(RevertProgress) /\ WF_vars(RevertAnswers)



\* the deployment with the explicit-save route and the forceFlush hook: one document
\* is opened and stays open, storage may fail
HookNext ==
    \/ \E d \in Docs : Connect(d)
    \/ \E t \in TaskIds : LoadSnapOk(t)
    \/ \E t \in TaskIds : LoadSnapFail(t)
    \/ \E t \in TaskIds : LoadRowsOk(t)
    \/ \E t \in TaskIds : LoadRowsFail(t)
    \/ \E d \in Docs : Mutate(d)
    \/ Tick
    \/ \E i \in TimerIds : TimerFire(i)
    \/ \E t \in TaskIds : FlushCrit(t)
    \/ \E t \in TaskIds : FlushWriteOk(t)
    \/ \E t \in TaskIds : FlushWriteFail(t)
    \/ \E t \in TaskIds : FlushWritten(t)
    \/ \E t \in TaskIds : FlushCatch(t)
    \/ \E t \in TaskIds : FlushExit(t)
    \/ \E t \in TaskIds : ProjBegin(t)
    \/ \E t \in TaskIds : ProjApplyOk(t)
    \/ \E t \in TaskIds : ProjApplyFail(t)
    \/ \E t \in TaskIds : ProjStateOk(t)
    \/ \E t \in TaskIds : ProjStateFail(t)
    \/ \E m \in MetaIds : CompactionTick(m)
    \/ \E t \in TaskIds : CompactCheck(t)
    \/ \E t \in TaskIds : CompactCrit(t)
    \/ \E t \in TaskIds : CompactTxnOk(t)
    \/ \E t \in TaskIds : CompactTxnFail(t)
    \/ \E t \in TaskIds : CompactAfter(t)
    \/ \E t \in TaskIds : CompactVersionOk(t)
    \/ \E t \in TaskIds : CompactVersionFail(t)
    \/ \E t \in TaskIds : CompactCatch(t)
    \/ \E t \in TaskIds : CompactExit(t)
    \/ \E d \in Docs : SaveRequest(d)
    \/ \E t \in TaskIds : SaveFound(t)
    \/ \E t \in TaskIds : SaveUpdated(t)
    \/ \E t \in TaskIds : SaveFail(t)
    \/ \E d \in Docs : ForceFlush(d)
    \/ \E t \in TaskIds : ForceCompact(t)
    \/ \E t \in TaskIds : ForceDone(t)

HookSpec == Init /\ [][HookNext]_vars



\* the program with the forceFlush hook called for open documents
ForceNext ==
    \/ Next
    \/ \E d \in Docs : ForceFlush(d)
    \/ \E t \in TaskIds : ForceCompact(t)
    \/ \E t \in TaskIds : ForceDone(t)

ForceSpec == Init /\ [][ForceNext]_vars

\* ---- the server over more than one auto-version interval ----
IntervalNext ==
    \/ Next
    \/ AutoVersionIntervalElapses

IntervalSpec == Init /\ [][IntervalNext]_vars

\* ---- the server, and saveAndCompact called for documents the registry does not hold ----
CallNext ==
    \/ Next
    \/ \E d \in Docs : SaveAndCompactCall(d)

CallSpec == Init /\ [][CallNext]_vars



\* ---- two documents served side by side, storage works ----
IndepInit ==
    /\ phase = [d \in Docs |-> "unbound"]
    /\ live = [d \in Docs |-> 0]
    /\ ndocs = 0
    /\ ydoc = [g \in DocInsts |-> NoDoc]
    /\ metaMap = [d \in Docs |-> 0]
    /\ nmeta = 0
    /\ metas = [m \in MetaIds |-> NoMeta]
    /\ ftimer = [i \in TimerIds |-> NoTimer]
    /\ task = [t \in TaskIds |-> IdleTask]
    /\ snapshot = [d \in Docs |-> [has |-> FALSE, bytes |-> {}]]
    /\ log = [d \in Docs |-> <<>>]
    /\ versions = NoVersions
    /\ sidecar = [d \in Docs |-> <<0, 0, 0>>]
    /\ projState = [d \in Docs |-> "norow"]
    /\ dirty = [d \in Docs |-> FALSE]
    /\ revertRoute = "mutex"
    /\ bindStateLocks = [d \in Docs |-> 0]
    /\ wiring = "attach"
    /\ served = Docs
    /\ content = [u \in AllUpdates |-> DefaultEdit(u)]
    /\ proc = "up"
    /\ nextUpd = 1
    /\ fails = 0
    /\ hist = NoHist

IndepNext ==
    \/ RevertProgress
    \/ \E d \in Docs : Connect(d)
    \/ \E d \in Docs : Mutate(d)
    \/ \E v \in 1..MaxVersionId : RevertRequest("d1", v)
    \/ RevertAnswers
    \/ Disconnect("d1")
    \/ \E t \in TaskIds : SaveForce(t)
    \/ \E t \in TaskIds : SaveClose(t)
    \/ \E t \in TaskIds : SaveCrit(t)
    \/ \E t \in TaskIds : SaveExit(t)
    \/ \E t \in TaskIds : WriteStateStop(t)

IndepSpec == IndepInit /\ [][IndepNext]_vars


\* ---- properties ----
\* the pending buffer of the metadata task t works on
PendingOf(t) == metas[task[t].m].pendingUpdates

CritPcs == {"f_crit", "f_write", "f_written", "f_catch", "f_exit",
            "c_crit", "c_txn", "c_after", "c_ver", "c_catch", "c_exit",
            "s_crit", "s_exit", "p_begin", "p_apply", "p_state"}

\* C1: a successful flush removes exactly the first n entries it captured: the
\* entries appended while its write was in flight stay in the buffer
C1_FlushRemovesOnlyCaptured ==
    [][\A t \in TaskIds :
         (task[t].pc = "f_written" /\ task'[t].pc # "f_written")
         => metas'[task[t].m].pendingUpdates =
              SubSeq(PendingOf(t), task[t].n + 1, Len(PendingOf(t)))]_vars

\* C2: a flush whose log write throws leaves the buffer (with what was appended
\* during the write), the counter and the log as they are, and every flush that
\* captures the buffer merges all of its entries, those of a failed write included
C2_FailedFlushKeepsBuffer ==
    [][\A t \in TaskIds :
         LET m == task[t].m IN
         /\ ((task[t].pc = "f_write" /\ task'[t].pc = "f_catch")
             \/ (task[t].pc = "f_catch" /\ task'[t].pc # "f_catch"))
            => /\ metas'[m].pendingUpdates = metas[m].pendingUpdates
               /\ Len(metas'[m].pendingUpdates) >= task[t].n
               /\ MergeSeq(SubSeq(metas'[m].pendingUpdates, 1, task[t].n)) = task[t].merged
               /\ metas'[m].updatesSinceLastCompaction = metas[m].updatesSinceLastCompaction
               /\ log' = log
         /\ (task[t].pc = "f_crit" /\ task'[t].pc = "f_write")
            => /\ task'[t].merged = MergeSeq(metas[m].pendingUpdates)
               /\ task'[t].n = Len(metas[m].pendingUpdates)]_vars

\* a write failed while a later update was appended to the buffer
C2_Witness ==
    \E t \in TaskIds : task[t].pc = "f_catch" /\ Len(PendingOf(t)) > task[t].n

\* C9: for one document, no two tasks are inside a critical section at once
C9_MutualExclusion ==
    \A s, t \in TaskIds :
        (s # t /\ task[s].pc \in CritPcs /\ task[t].pc \in CritPcs) => task[s].d # task[t].d

\* C3: while the document stays bound, every update its change callback captured
\* is eventually written to storage, in a log row or in the snapshot
C3_EventualDurability ==
    \A u \in Updates :
        (live["d1"] # 0 /\ <<live["d1"], u>> \in hist.captured)
        ~> (u \in hist.stored \/ live["d1"] = 0)

\* an update was captured, was never stored, and a write of it has just failed
C3_Witness ==
    \E t \in TaskIds, u \in Updates :
        /\ task[t].pc = "f_catch"
        /\ live["d1"] # 0
        /\ <<live["d1"], u>> \in hist.captured
        /\ u \notin hist.stored

\* the armed flush timers of document d
ArmedTimers(d) == {i \in TimerIds : ftimer[i].armed /\ metas[ftimer[i].m].d = d}

\* a flush captures the whole buffer and its write appends exactly that one row
OneRowPerFlush ==
    \A t \in TaskIds :
        /\ (task[t].pc = "f_crit" /\ task'[t].pc = "f_write")
           => task'[t].merged = MergeSeq(PendingOf(t))
        /\ (task[t].pc = "f_write" /\ task'[t].pc = "f_written")
           => log' = [log EXCEPT ![task[t].d] = Append(@, task[t].merged)]

TxnCommits(t) == task[t].pc = "c_txn" /\ task'[t].pc = "p_begin"

\* C5: when a compaction commits, the log of the document is empty, the snapshot
\* is the state that was encoded for it, every log row the transaction deleted is
\* contained in that snapshot, and the compaction then leaves the counter at zero
C5_PostCompactionState ==
    [][\A t \in TaskIds :
         LET d == task[t].d IN
         /\ TxnCommits(t)
            => /\ log'[d] = <<>>
               /\ snapshot'[d] = [has |-> TRUE, bytes |-> task[t].snap]
               /\ \A k \in 1..Len(log[d]) : log[d][k] \subseteq snapshot'[d].bytes
         /\ (task[t].pc = "c_after" /\ task'[t].pc # "c_after")
            => metas'[task[t].m].updatesSinceLastCompaction = 0]_vars

\* C6: a failed compaction transaction leaves snapshot, log and counter as they
\* were; rows leave the log only together with the snapshot of the same
\* transaction being stored, and the snapshot changes only together with the log
\* being emptied
C6_CompactionAtomicOnFailure ==
    [][/\ \A t \in TaskIds :
            ((task[t].pc = "c_txn" /\ task'[t].pc = "c_catch")
             \/ (task[t].pc = "c_catch" /\ task'[t].pc # "c_catch"))
            => /\ snapshot' = snapshot
               /\ log' = log
               /\ metas'[task[t].m].updatesSinceLastCompaction =
                    metas[task[t].m].updatesSinceLastCompaction
       /\ \A d \in Docs :
            /\ (Len(log'[d]) < Len(log[d]))
               => \E t \in TaskIds :
                     /\ TxnCommits(t)
                     /\ log'[d] = <<>>
                     /\ snapshot'[d] = [has |-> TRUE, bytes |-> task[t].snap]
            /\ (snapshot'[d] # snapshot[d])
               => (log'[d] = <<>> /\ \E t \in TaskIds : TxnCommits(t))]_vars

\* a compaction transaction has failed with rows in the log and a counter to retry on
C6_Witness ==
    \E t \in TaskIds :
        /\ task[t].pc = "c_catch"
        /\ log[task[t].d] # <<>>
        /\ metas[task[t].m].updatesSinceLastCompaction > 0

\* document d is bound, loaded without error, and at rest: no task is running, no
\* flush timer is armed and its pending buffer is empty
FlushedAndAtRest(d) ==
    /\ phase[d] = "bound"
    /\ ydoc[live[d]].loadOk
    /\ \A t \in TaskIds : task[t].kind = "idle"
    /\ metaMap[d] # 0
    /\ metas[metaMap[d]].pendingUpdates = <<>>
    /\ metas[metaMap[d]].flushTimer = 0

\* C7: once the pending buffer has been flushed, loading the stored snapshot and
\* replaying the stored log yields the state of the live document
C7_ReplayEquivalence ==
    \A d \in Docs :
        FlushedAndAtRest(d) => Persisted(d) = ydoc[live[d]].state

\* loadDocFromDb of task t applies stored data in this step
LoadStep(t) == task[t].kind = "bind" /\ task'[t].pc # task[t].pc

\* a load leaves every pending buffer and every flush timer as it is
LoadEnqueuesNothing ==
    \A t \in TaskIds :
        LoadStep(t) => /\ \A m \in MetaIds :
                            metas'[m].pendingUpdates = metas[m].pendingUpdates
                       /\ ftimer' = ftimer

\* every log row written holds at least one genuine edit of its own
NoRowWithoutEdit == hist'.rows <= Cardinality(hist'.captured)

SaveReturns(t) == task[t].pc = "s_exit" /\ task'[t].pc = "w_stop"

\* when saveAndCompact returns and no storage operation has failed, the counter is
\* zero, the log is empty and the stored snapshot is the state of the document
ClosedStateStored(t) ==
    fails = 0 =>
        /\ metas[task[t].m].updatesSinceLastCompaction = 0
        /\ log[task[t].d] = <<>>
        /\ snapshot[task[t].d] = [has |-> TRUE, bytes |-> ydoc[task[t].g].state]

Range(s) == {s[k] : k \in 1..Len(s)}

\* how far the unbind that task t runs has come: 1 the final flush is running,
\* 2 it has completed, 3 the forced compaction is running, 4 it has completed,
\* 5 the close projections are running, 6 all three have completed (0: t runs no
\* unbind)
CloseStage(rec) ==
    IF rec.kind # "close" THEN 0
    ELSE CASE "s_force" \in Range(rec.stk) -> 1
           [] rec.pc = "s_force" -> 2
           [] "s_close" \in Range(rec.stk) -> 3
           [] rec.pc = "s_close" -> 4
           [] rec.pc \in {"s_wait", "s_crit", "s_exit"} \/ "s_exit" \in Range(rec.stk) -> 5
           [] rec.pc = "w_stop" -> 6
           [] OTHER -> 9

\* C11: an unbind goes through its stages in order: the final flush completes
\* before the forced compaction starts, the compaction completes before the close
\* projections run (and only then do they run), and the compaction timer is
\* stopped and the metadata discarded only by the unbind that has completed all
\* three
C11_UnbindOrdering ==
    [][/\ \A t \in TaskIds :
            LET a == CloseStage(task[t])
                b == CloseStage(task'[t])
            IN  /\ (a # 0 /\ b # 0) => b \in {a, a + 1}
                /\ (a = 0 /\ b # 0) => b \in {1, 2}
                /\ (a # 0 /\ b = 0) => a = 6
                /\ task'[t].trig = "close" => b = 5
       /\ \A d \in Docs :
            LET m == metaMap[d] IN
            (m # 0 /\ (metaMap'[d] = 0
                       \/ (metas[m].compactionTimer # 0 /\ metas'[m].compactionTimer = 0)))
            => \E t \in TaskIds :
                  /\ CloseStage(task[t]) = 6
                  /\ task[t].d = d
                  /\ task'[t].kind = "idle"]_vars

\* an unbind has completed: the state of the document is in the snapshot, the
\* projection has written its columns, the metadata is gone
C11_Witness ==
    \E d \in Docs :
        /\ phase[d] = "unbound"
        /\ metaMap[d] = 0
        /\ nmeta >= 1
        /\ snapshot[d].bytes # {}
        /\ sidecar[d] # <<0, 0, 0>>
        /\ \A t \in TaskIds : task[t].kind = "idle"

\* C12: stopCompactionTimer cancels the flush timer and the compaction timer of
\* the document and nulls both handles, clears the projection dirty flag and
\* removes the metadata from the registry, so that the next getOrCreateMeta gives
\* a new instance with an empty buffer and a zero counter; for a document without
\* metadata it changes nothing
C12_StopDiscardsMetadata ==
    [][/\ \A t \in TaskIds :
            (task[t].pc = "w_stop" /\ task'[t].pc # "w_stop")
            => LET d == task[t].d
                   m == metaMap[d]
                   S == getOrCreateMeta(Mem', d, 0)
               IN  /\ m # 0
                   /\ metas'[m].compactionTimer = 0
                   /\ metas'[m].flushTimer = 0
                   /\ \A i \in TimerIds : ~(ftimer'[i].armed /\ ftimer'[i].m = m)
                   /\ ~dirty'[d]
                   /\ metaMap'[d] = 0
                   /\ nmeta' < MaxBinds
                      => /\ S.metaMap[d] \notin {0, m}
                         /\ S.metas[S.metaMap[d]].pendingUpdates = <<>>
                         /\ S.metas[S.metaMap[d]].updatesSinceLastCompaction = 0
       /\ \A d \in Docs : metaMap[d] = 0 => stopCompactionTimer(Mem, d) = Mem]_vars

\* a document was unbound while its metadata had a non-zero counter, and was bound
\* again: the registry holds another instance, with an empty buffer and a zero
\* counter
C12_Witness ==
    \E d \in Docs, m \in MetaIds :
        /\ metaMap[d] \notin {0, m}
        /\ metas[m].d = d
        /\ metas[m].updatesSinceLastCompaction > 0
        /\ metas[metaMap[d]].pendingUpdates = <<>>
        /\ metas[metaMap[d]].updatesSinceLastCompaction = 0

\* the runner decides about the projection for task t in this step
Gate(t) == task[t].pc = "p_begin" /\ task'[t].pc # "p_begin"

\* C16: the runner applies the projection exactly when its triggers include the
\* trigger of the run, it is marked dirty for the document or the trigger is
\* compact or close, and shouldRun returns true; otherwise the run returns to its
\* caller without issuing a write
C16_ProjectionGating ==
    [][\A t \in TaskIds :
         Gate(t) =>
            LET applies == /\ task[t].trig \in triggers
                           /\ (task[t].trig = "flush" => dirty[task[t].d])
                           /\ shouldRun
            IN  /\ task[t].trig \in {"flush", "compact", "close"}
                /\ applies => (task'[t].pc = "p_apply"
                               /\ task'[t].val = ciaColumns(CiaOf(ydoc[task[t].g].state)))
                /\ ~applies => (task'[t].pc = Head(task[t].stk) /\ dbVars' = dbVars)]_vars

\* the projection is being applied on the close trigger although it is not marked
\* dirty, on a document whose edits are stored in the snapshot
C16_Witness ==
    \E t \in TaskIds :
        /\ task[t].pc = "p_apply"
        /\ task[t].trig = "close"
        /\ ~dirty[task[t].d]
        /\ log[task[t].d] = <<>>
        /\ snapshot[task[t].d].bytes # {}

\* the apply of the projection run by task t settles in this step
ApplySettles(t) == task[t].pc = "p_apply" /\ task'[t].pc = "p_state"

\* the ProjectionState write of the projection run by task t settles in this step
StateWriteSettles(t) == task[t].pc = "p_state" /\ task'[t].pc # "p_state"

C13_ShutdownPersistsPending ==
    (proc = "exited" /\ fails = 0)
    => \A p \in hist.atShutdown : p[2] \in Persisted(p[1])

\* shutdown starts in this step
ShutdownStarts == proc = "up" /\ proc' = "draining"

\* C14: shutdown starts the flush of every registered document in one step,
\* leaving the running activations as they are and queueing behind a mutex that is
\* held; the timers are stopped and the store is released only when every flush it
\* started, and every flush that was in progress when it started, has settled;
\* until the process exits a flush ends only by leaving its critical section
C14_ShutdownOrdering ==
    [][/\ ShutdownStarts
          => /\ \A d \in RegisteredDocs(metas) :
                  LET m == metaMap[d] IN
                  \E t \in TaskIds :
                     /\ task[t].kind = "idle"
                     /\ task'[t].kind = "shutdown"
                     /\ task'[t].d = d
                     /\ task'[t].pc = IF metas[m].owner = 0 THEN "f_crit" ELSE "f_wait"
                     /\ metas[m].owner # 0
                        => /\ metas'[m].owner = metas[m].owner
                           /\ metas'[m].queue = Append(metas[m].queue, t)
             /\ \A t \in TaskIds :
                  task[t].kind # "idle"
                  => task'[t] = [task[t] EXCEPT !.early = InFlush(task[t])]
       /\ (proc = "draining" /\ proc' # "draining")
          => /\ proc' = "stopping"
             /\ \A t \in TaskIds :
                  /\ task[t].kind # "shutdown"
                  /\ ~(task[t].early /\ InFlush(task[t]))
       /\ (proc = "draining" /\ proc' = "draining")
          => \A m \in MetaIds :
                metas[m].compactionTimer # 0 => metas'[m].compactionTimer # 0
       /\ proc' # "exited"
          => \A t \in TaskIds :
                (InFlush(task[t]) /\ ~InFlush(task'[t])) => task[t].pc = "f_exit"]_vars

\* shutdown found one unflushed update in each of two documents; both flushes have
\* settled, both updates are stored, the timers are stopped
C14_Witness ==
    /\ proc = "stopping"
    /\ hist.atShutdown = {<<"d1", 1>>, <<"d2", 2>>}
    /\ \A p \in hist.atShutdown : p[2] \in Persisted(p[1])
    /\ \A i \in TimerIds : ~ftimer[i].armed

\* C15: once shutdown has started, no pending buffer takes a new entry, and at
\* process exit every update that a change callback captured is in the stored
\* snapshot or in the stored log of its document
C15_IngressCutBeforeDrain ==
    [][/\ proc # "up"
          => \A m \in MetaIds :
                Len(metas'[m].pendingUpdates) <= Len(metas[m].pendingUpdates)
       /\ proc' = "exited"
          => \A p \in hist.captured : p[2] \in Persisted(ydoc[p[1]].d)']_vars

ClaimedLevel(v) ==
    CASE v = "Low" -> 1
      [] v = "Medium" -> 2
      [] v \in {"High", "Critical"} -> 3
      [] OTHER -> 0

ClaimedColumns(raw) ==
    <<ClaimedLevel(raw.confidentiality), ClaimedLevel(raw.integrity),
      ClaimedLevel(raw.availability)>>

\* the flush of task t has written its row and its flush-triggered projections
\* return in this step
FlushProjected(t) ==
    /\ task[t].trig = "flush"
    /\ task[t].pc \in {"p_begin", "p_state"}
    /\ task[t].merged # {}
    /\ task'[t].pc = "f_exit"

\* C20: an application of the projection writes 1 for Low, 2 for Medium, 3 for
\* High and for Critical, and 0 for an absent or any other value, in each of the
\* three columns; and when a flush has written its row and run its projections,
\* with no storage failure and no edit captured since, the columns hold the levels
\* of the document's cia map
C20_CiaLevelMapping ==
    [][\A t \in TaskIds :
         LET d == task[t].d IN
         /\ (ApplySettles(t) /\ ~task'[t].perr)
            => sidecar'[d] = ClaimedColumns(task[t].raw)
         /\ (FlushProjected(t) /\ fails' = 0
               /\ metas'[task[t].m].pendingUpdates = <<>>)
            => sidecar'[d] = ClaimedColumns(CiaOf(ydoc[task[t].g].state))]_vars


\* the client edit of this step changed the live Y.Doc of document d
Edited(d) ==
    /\ nextUpd' = nextUpd + 1
    /\ live[d] # 0
    /\ ydoc'[live[d]].state # ydoc[live[d]].state

\* the edit of this step is the last entry of the buffer of the metadata instance the
\* registry holds for d, and that buffer is otherwise what it was
AppendedOnce(d) ==
    LET m == metaMap'[d] IN
    /\ m # 0
    /\ metas'[m].pendingUpdates =
          Append(IF metaMap[d] = m THEN metas[m].pendingUpdates ELSE <<>>, {nextUpd})

\* the flush timer of the registered metadata instance of d has just been armed
FlushArmed(d) ==
    LET m == metaMap'[d] IN
    /\ m # 0
    /\ metas'[m].flushTimer # 0
    /\ ftimer'[metas'[m].flushTimer] =
          [armed |-> TRUE, m |-> m, g |-> live[d], age |-> 0]
    /\ \A i \in TimerIds : (ftimer'[i].armed /\ ftimer'[i].m = m) => i = metas'[m].flushTimer

\* C21: every client edit of a bound document is, within the change callback,
\* appended exactly once to the pending buffer of the metadata instance the registry
\* holds for the document, marks the projections of the document dirty, and (re)arms
\* the flush timer
C21_MutationCapture ==
    [][\A d \in Docs :
         Edited(d) => (AppendedOnce(d) /\ dirty'[d] /\ FlushArmed(d))]_vars


\* the Y.Doc references a caller can pass to getOrCreateMeta (0: none)
DocRefs == 0..MaxBinds

\* the first call for d in memory state S made an instance with an empty buffer,
\* null timers, a zero counter and the reference g, and touched nothing else
CreatesFresh(S, d, g) ==
    LET S1 == getOrCreateMeta(S, d, g)
        m == S1.metaMap[d]
    IN  /\ m # 0
        /\ \A e \in Docs : S.metaMap[e] # m
        /\ S1.metas[m].pendingUpdates = <<>>
        /\ S1.metas[m].flushTimer = 0
        /\ S1.metas[m].compactionTimer = 0
        /\ S1.metas[m].updatesSinceLastCompaction = 0
        /\ S1.metas[m].yjsDocument = g
        /\ \A e \in Docs \ {d} : S1.metaMap[e] = S.metaMap[e]
        /\ \A k \in MetaIds \ {m} : S1.metas[k] = S.metas[k]
        /\ S1.ftimer = S.ftimer

\* a call for d in memory state S, where d has metadata, returned that instance and
\* changed nothing but the stored reference, which is g when g is given
ReturnsSame(S, d, g) ==
    LET S1 == getOrCreateMeta(S, d, g)
        m == S.metaMap[d]
    IN  /\ S1.metaMap = S.metaMap
        /\ S1.nmeta = S.nmeta
        /\ S1.ftimer = S.ftimer
        /\ S1.metas = [S.metas EXCEPT ![m].yjsDocument = IF g # 0 THEN g ELSE @]

\* C22: in every state of the registry the program reaches, a call of getOrCreateMeta
\* for an id without metadata creates an instance with an empty buffer, null timers
\* and a zero counter, and every call for an id that has metadata, the call after a
\* creating call included, returns that instance with its buffer, counter and timers
\* as they are, the stored reference being replaced when a reference is given
C22_GetOrCreateMetaIdempotent ==
    \A d \in Docs : \A g \in DocRefs : \A g2 \in DocRefs :
        IF metaMap[d] # 0
        THEN /\ ReturnsSame(Mem, d, g)
             /\ ReturnsSame(getOrCreateMeta(Mem, d, g), d, g2)
        ELSE nmeta < MaxBinds
             => /\ CreatesFresh(Mem, d, g)
                /\ ReturnsSame(getOrCreateMeta(Mem, d, g), d, g2)

\* the change callback has called getOrCreateMeta again for a document whose
\* metadata holds an earlier update, an armed flush timer, a compaction timer and a
\* non-zero counter
C22_Witness ==
    \E d \in Docs :
        LET m == metaMap[d] IN
        /\ m # 0
        /\ Len(metas[m].pendingUpdates) = 2
        /\ metas[m].flushTimer # 0
        /\ metas[m].compactionTimer # 0
        /\ metas[m].updatesSinceLastCompaction > 0


\* task t issues the compaction transaction in this step
IssuesTxn(t) == task[t].pc = "c_crit" /\ task'[t].pc = "c_txn"

\* task t runs the counter check of compactDocument in this step and finds zero
FindsZero(t) ==
    /\ task[t].pc = "c_check"
    /\ task'[t] # task[t]
    /\ task[t].m # 0
    /\ metas[task[t].m].updatesSinceLastCompaction = 0

\* C30: a compaction transaction is issued for a document only when its log holds a
\* row written since the last successful compaction (which emptied the log) or while
\* the close of the document, which forces it, is running; and a compactDocument that finds the counter at zero after
\* its flush returns without touching the store or the metadata
C30_IdleCompactionNoOp ==
    [][\A t \in TaskIds :
         /\ IssuesTxn(t) => \/ log[task[t].d] # <<>>
                            \/ task[t].kind = "close"
                            \/ phase[task[t].d] = "closing"
         /\ FindsZero(t) => /\ task'[t] = Return(task[t])
                            /\ UNCHANGED <<dbVars, metas>>]_vars


\* the n largest elements of a set of row ids
Newest(ids, n) == {i \in ids : Cardinality({j \in ids : j > i}) < n}

\* no createVersion is running
VersionsAtRest == \A t \in TaskIds : task[t].kind # "version"

\* C28: when no createVersion is running, a document for which at most the limit of
\* versions were created has all of them, and a document for which more were created
\* has exactly the limit of rows, the most recently created ones
C28_VersionRetentionCap ==
    VersionsAtRest
    => \A d \in Docs :
          {r.id : r \in VersionsOf(versions, d)} = Newest(hist.versioned[d], MAX_VERSIONS)


\* a bindState call for Y.Doc g that found the marker set returns in this step
DuplicateReturns(g) ==
    \/ (ydoc'[g].binds = ydoc[g].binds + 1 /\ task' = task)
    \/ \E t \in TaskIds :
          task[t].pc = "b_woken" /\ task[t].g = g /\ task'[t].pc = "idle"

\* a bindState call has issued the load of Y.Doc g and not yet run to its end
Initializing(g) ==
    \E t \in TaskIds : task[t].pc \in {"l_snap", "l_rows"} /\ task[t].g = g

InvalidVersion(t) ==
    \/ VersionRow(versions, task[t].n) = {}
    \/ \E r \in VersionRow(versions, task[t].n) : r.d # task[t].d

\* the revert request of task t holds or awaits the lock, or is about to ask for it
PastValidation(rec) ==
    rec.kind = "revert" /\ rec.pc \in {"r_docs", "r_wait", "r_crit", "r_exit"}

\* C24: when getVersion resolves for a revert request whose version does not exist or
\* belongs to another document, the request ends in that step with a 403 or 404
\* response and the live documents, the pending buffers, the registry with its locks,
\* the timers and the stored rows are unchanged; and a request gets past validation,
\* to where the lock is taken, only with a version created for its target document
C24_RevertValidation ==
    [][\A t \in TaskIds :
         /\ (task[t].pc = "r_get" /\ task'[t] # task[t] /\ InvalidVersion(t))
               => /\ task'[t] = IdleTask
                  /\ hist'.response \in {403, 404}
                  /\ UNCHANGED <<ydoc, metas, metaMap, nmeta, ftimer, dirty, dbVars,
                                 content, nextUpd, live, phase>>
         /\ PastValidation(task'[t]) => task'[t].n \in hist'.versioned[task'[t].d]]_vars

\* a request was refused with 403 while the document it named a version of is open
\* with captured edits in its pending buffer
C24_Witness ==
    /\ hist.response = 403
    /\ versions.rows # {}
    /\ \A t \in TaskIds : task[t].kind # "revert"
    /\ \E m \in MetaIds : metas[m].pendingUpdates # <<>>


\* ---- C25: revert does not interleave ----
\* the step in which the revert of task t changes the live document
RevertApplies(t) ==
    task[t].kind = "revert" /\ task'[t] # task[t] /\ nextUpd' = nextUpd + 1

\* task s is inside the mutex of document d (flush write, compaction, projections)
InsideLock(s, d) == task[s].d = d /\ task[s].pc \in CritPcs

\* C25: the revert's clear-and-repopulate is one step of the document, taken by the
\* task that holds the lock of the document's registered metadata, while no flush or
\* compaction of that document is inside its critical section; after the step the
\* document is its previous state plus the one revert update, and its content is
\* the content of the version
C25_RevertNoInterleave ==
    [][\A t \in TaskIds : RevertApplies(t) =>
         LET d == task[t].d
             g == live[d] IN
         /\ metaMap[d] # 0
         /\ metas[metaMap[d]].owner = t
         /\ \A s \in TaskIds \ {t} : ~InsideLock(s, d)
         /\ ydoc'[g].state = ydoc[g].state \cup {nextUpd}
         /\ content'[nextUpd] = CiaOf(task[t].snap)]_vars


\* ---- C26: a revert is captured as a new edit ----
\* C26: the update a revert emits carries an origin other than the persistence
\* origin; within the transaction's callbacks it is appended exactly once to the
\* pending buffer of the document's registered metadata and the flush timer is
\* (re)armed; and while the document stays open it ends up in the stored state of
\* the document (snapshot merged with the update log)
C26_RevertCaptured ==
    /\ [][\A t \in TaskIds : RevertApplies(t) =>
            /\ RevertOrigin # YJS_ORIGIN_PERSISTENCE
            /\ AppendedOnce(task[t].d)
            /\ FlushArmed(task[t].d)]_vars
    /\ \A u \in AllUpdates : (u \in hist.reverted) ~> (u \in Persisted("d1"))

\* the update of a revert has reached the stored state of the document
C26_Witness ==
    \E u \in hist.reverted : u \in Persisted("d1") /\ <<live["d1"], u>> \in hist.captured


\* ---- C27: force-save durability ----
\* the explicit save of task t returns successfully in this step
SaveSucceeds(t) ==
    /\ task'[t] = IdleTask
    /\ \/ task[t].pc = "sv_update" /\ hist'.response = 200
       \/ task[t].pc = "ff_done"

\* C27: when an explicit save of an open document (the save route, or forceFlush)
\* returns successfully, every update that was in the document's pending buffer when
\* it was called is in the stored state of the document (snapshot merged with log)
C27_ForceSaveDurable ==
    [][\A t \in TaskIds : SaveSucceeds(t) => task[t].ids \subseteq Persisted(task[t].d)]_vars


\* ---- C29: storage failures are terminal inside the core ----
\* task t goes on after the storage call it awaited threw: it is still inside the
\* same call chain (the error was caught where it was thrown), or the function that
\* caught it returned normally to its caller, or - loadDocFromDb - bindState went on
\* to start the compaction timer
GoesOn(t) ==
    \/ /\ task'[t].kind = task[t].kind
       /\ task'[t].stk = task[t].stk
       /\ task'[t].pc \notin {task[t].pc, "idle"}
    \/ /\ task[t].stk # <<>>
       /\ task'[t].kind = task[t].kind
       /\ task'[t].pc = Head(task[t].stk)
       /\ task'[t].stk = Tail(task[t].stk)
    \/ /\ task[t].kind = "bind"
       /\ phase'[task[t].d] = "bound"
       /\ metaMap'[task[t].d] # 0
       /\ metas'[metaMap'[task[t].d]].compactionTimer = task[t].g

\* C29: when a storage call throws, the task that awaited it goes on (no caller of
\* flushPendingUpdates, compactDocument, saveAndCompact, forceFlush or loadDocFromDb
\* is rejected, so nothing reaches a timer callback), and no other task is touched;
\* and a client edit, whose change callback runs in the same step, issues and
\* completes no storage call and starts or ends no task
C29_StorageFailuresTerminal ==
    [][/\ (fails' # fails) =>
            /\ \E t \in TaskIds : task'[t] # task[t]
            /\ \A t \in TaskIds : task'[t] # task[t] => GoesOn(t)
       /\ (nextUpd' # nextUpd) => UNCHANGED <<dbVars, task, fails>>]_vars

\* the compaction transaction under forceFlush threw and its catch block is running,
\* with the continuation of forceFlush still on the stack
C29_Witness ==
    \E t \in TaskIds :
        /\ task[t].kind = "force"
        /\ task[t].pc = "c_catch"
        /\ task[t].stk = <<"ff_done">>
        /\ fails > 0


\* ---- C31: flush with an empty buffer ----
\* task t is inside a flushPendingUpdates that found the pending buffer empty
EmptyFlush(t) ==
    /\ task[t].n = 0
    /\ \/ task[t].pc \in {"p_begin", "p_apply", "p_state"} /\ task[t].trig = "flush"
       \/ task[t].pc = "f_exit"

\* C31: a flushPendingUpdates that finds the pending buffer of its metadata empty goes
\* straight to the flush-trigger projections; none of its steps writes a log row, a
\* snapshot or a version or changes the buffer or the rows-since-last-compaction
\* counter; and it applies the projection when the projection is dirty
C31_EmptyFlush ==
    [][\A t \in TaskIds : task'[t] # task[t] =>
         /\ (task[t].pc = "f_crit" /\ metas[task[t].m].pendingUpdates = <<>>)
               => /\ task'[t].pc = "p_begin"
                  /\ task'[t].trig = "flush"
                  /\ task'[t].n = 0
                  /\ UNCHANGED <<dbVars, metas>>
         /\ EmptyFlush(t)
               => /\ UNCHANGED <<log, snapshot, versions>>
                  /\ metas'[task[t].m].pendingUpdates = metas[task[t].m].pendingUpdates
                  /\ metas'[task[t].m].updatesSinceLastCompaction
                        = metas[task[t].m].updatesSinceLastCompaction
         /\ (EmptyFlush(t) /\ task[t].pc = "p_begin" /\ dirty[task[t].d])
               => task'[t].pc = "p_apply"]_vars

\* a flush that found nothing pending has applied the dirty projection
C31_Witness ==
    \E t \in TaskIds :
        /\ task[t].pc = "p_state"
        /\ task[t].trig = "flush"
        /\ task[t].n = 0
        /\ ~task[t].perr
        /\ metas[task[t].m].pendingUpdates = <<>>


\* ---- C32: loader order ----
\* the step of task t in which a read of loadDocFromDb resolves or throws
LoaderStep(t, pc) == task[t].pc = pc /\ task'[t] # task[t]

AutoVersionStep(d) == hist'.versioned[d] # hist.versioned[d]

\* C33: a version is created automatically only inside a compaction whose
\* transaction succeeded, while the mutex is held; for any one document no automatic
\* version is created less than AUTO_VERSION_INTERVAL_MS after the previous one, over
\* compactions, unbinds and rebinds; and when documentVersion.create throws, the
\* compaction goes on to its end with the counter reset
C33_AutoVersionGating ==
    [][/\ \A d \in Docs :
            AutoVersionStep(d) =>
               /\ \E t \in TaskIds : /\ task[t].pc = "c_ver" /\ task[t].d = d
                                      /\ task'[t].pc = "c_exit"
                                      /\ metas[task[t].m].owner = t
                                      /\ task[t].snap \subseteq hist.stored
               /\ hist.autoRecent[d] = {}
       /\ \A t \in TaskIds :
            (task[t].pc = "c_ver" /\ fails' # fails) =>
               /\ task'[t].pc = "c_exit"
               /\ metas'[task[t].m].updatesSinceLastCompaction = 0
               /\ versions' = versions]_vars



\* ---- C34: saveAndCompact without metadata ----
\* C34: a saveAndCompact called for a document id without metadata ends by returning
\* from compactDocument's critical section, and, when no storage operation failed,
\* the stored snapshot of the document is then the state of the Y.Doc it was given
C34_UntrackedSaveCompacts ==
    [][\A t \in TaskIds :
         (task[t].kind = "call" /\ task'[t].kind = "idle") =>
            /\ task[t].pc = "c_exit"
            /\ fails = 0 => snapshot'[task[t].d] =
                               [has |-> TRUE, bytes |-> ydoc[task[t].g].state]]_vars


\* ---- C35: cross-document independence ----
\* what the persistence layer holds for document d: its registry entry, the buffer,
\* counter and timers of its metadata instances, its dirty flag, its snapshot row
\* and its log rows
DocState(d) ==
    <<metaMap[d],
      [m \in MetaIds |-> IF metas[m].d = d
                         THEN <<metas[m].pendingUpdates, metas[m].updatesSinceLastCompaction,
                                metas[m].flushTimer, metas[m].compactionTimer>>
                         ELSE <<>>],
      {i \in TimerIds : ftimer[i].armed /\ ftimer[i].m # 0 /\ metas[ftimer[i].m].d = d},
      dirty[d], snapshot[d], log[d]>>

\* the step is one of task t, working for document d
ActsFor(t, d) ==
    /\ task'[t] # task[t]
    /\ d = IF task[t].kind = "idle" THEN task'[t].d ELSE task[t].d

\* C35: a step of a flush, compaction, unbind or revert of one document leaves what
\* the persistence layer holds for every other document unchanged; no step changes
\* what is held for two documents; and a task that waits for a lock waits for the lock
\* of a metadata instance of its own document, held by a task of that document; and
\* whatever the other tasks wait for, a storage operation issued for a document can
\* complete as soon as the event loop has nothing runnable
C35_Independence ==
    [][/\ \A t \in TaskIds, d \in Docs :
            ActsFor(t, d) => \A e \in Docs \ {d} : DocState(e)' = DocState(e)
       /\ \A d, e \in Docs :
            d # e => (DocState(d)' = DocState(d) \/ DocState(e)' = DocState(e))
       /\ \A t \in TaskIds :
            task[t].pc \in {"f_wait", "c_wait", "s_wait", "r_wait"} =>
               /\ metas[task[t].m].d = task[t].d
               /\ metas[task[t].m].owner # 0
               /\ task[metas[task[t].m].owner].d = task[t].d
       /\ \A t \in TaskIds :
            Quiet =>
               /\ task[t].pc = "f_write" => ENABLED FlushWriteOk(t)
               /\ task[t].pc = "p_apply" => ENABLED ProjApplyOk(t)
               /\ task[t].pc = "p_state" => ENABLED ProjStateOk(t)
               /\ task[t].pc = "c_txn" => ENABLED CompactTxnOk(t)
               /\ task[t].pc = "c_ver" => ENABLED CompactVersionOk(t)]_vars

\* the write of a flush of d1 is in flight, d2 was edited after d1, and that edit
\* was flushed and compacted into the snapshot of d2
C35_Witness ==
    /\ \E t \in TaskIds : task[t].d = "d1" /\ task[t].pc = "f_write" /\ task[t].merged = {1}
    /\ snapshot["d2"] = [has |-> TRUE, bytes |-> {2}]
    /\ log["d2"] = <<>>





\* ---- C36: the dirty flag and concurrent edits ----
\* C36: when a projection run finishes after a successful apply and the cia map of
\* the document is no longer what the run read, because an edit arrived in between
\* and marked the projection dirty, the projection is dirty after the run
C36_DirtyNotLost ==
    [][\A t \in TaskIds :
         (/\ wiring = "attach"
          /\ task[t].pc = "p_state"
          /\ task'[t] # task[t]
          /\ ~task[t].perr
          /\ dirty[task[t].d]
          /\ CiaOf(ydoc[task[t].g].state) # task[t].raw)
         => dirty'[task[t].d]]_vars

\* ---- C37: pruning never over-deletes ----
\* C37: however version creations for one document interleave, the document keeps at
\* least as many version rows as were created for it, up to the limit
C37_PruneKeepsEnough ==
    \A d \in Docs :
        Cardinality(VersionsOf(versions, d)) >= Min(MAX_VERSIONS, Cardinality(hist.versioned[d]))

\* ---- C38: the counter tracks the log ----
\* C38: for a bound document with no task of the persistence layer working on it,
\* a counter of zero in its metadata implies that its stored log is empty
C38_CounterTracksLog ==
    \A d \in Docs :
        (/\ phase[d] = "bound"
         /\ metaMap[d] # 0
         /\ \A t \in TaskIds : task[t].kind # "idle" => task[t].d # d
         /\ metas[metaMap[d]].updatesSinceLastCompaction = 0)
        => log[d] = <<>>


\* ---- C39: no write after the store is released ----
\* a storage write of task t is in flight
WriteInFlight(rec) == rec.pc \in {"f_write", "c_txn", "c_ver", "p_apply", "p_state"}

\* C39: once shutdown has called prisma.$disconnect(), no task issues a log write, a
\* compaction transaction, a version write or a projection write
C39_NoWriteAfterRelease ==
    [][(proc = "stopping" \/ proc = "exited")
         => \A t \in TaskIds :
               WriteInFlight(task'[t]) => task'[t].pc = task[t].pc]_vars


\* ---- C40: shutdown loses nothing captured earlier ----
\* C40: once shutdown has completed and no storage operation has failed, every
\* update that the change callback of a document bound and registered with a live
\* Y.Doc at the start of shutdown had captured by then is in the stored snapshot or in
\* the stored log of that document
C40_ShutdownKeepsCaptured ==
    (proc = "exited" /\ fails = 0)
    => \A p \in hist.before : p[2] \in Persisted(p[1])

====
